---- MODULE Spec2Model ----
(***************************************************************************)
(* Model of the dielectric-scheme solvers of qupled / STLS.                *)
(*                                                                         *)
(*  Spec       solve_stls (src/unnamed/part_001): the damped fixed-point   *)
(*             iteration on G and S, its fresh and its restart path, the   *)
(*             files it reads and writes.                                  *)
(*  SpecBin    compute_phi, write_bin and read_bin: the layout and the     *)
(*             round trip of the static binary restart file.               *)
(*  SpecCache  write_fixed_dynamic_qstls_iet, read_fixed_dynamic_qstls_iet *)
(*             and check_dynamic_qstls_iet (src/dynamic_qstls_iet.c): the  *)
(*             file of the dynamic QSTLS-IET density responses.            *)
(*  SpecDyn    compute_dynamic_qstls_iet: the steps of the dynamic         *)
(*             QSTLS-IET driver and its safeguard on Theta.                *)
(*  SpecSsf    compute_ssf and Ssf::get at one wave-vector, in exact       *)
(*             rational arithmetic.                                        *)
(*                                                                         *)
(* Floating-point numbers are modelled by their class (finite, NaN, +inf)  *)
(* and, when finite, by an integer number of units.  The numerical kernels *)
(* (quadratures, closures) are kept as provenance: an array records which  *)
(* operation produced it and from which version of its argument.           *)
(***************************************************************************)
EXTENDS Integers, Sequences, FiniteSets, TLC

VARIABLES
  pc,            \* position of solve_stls / of the file programs
  in,            \* the input record of the running program
  init_flag,     \* solve_stls: true on a brand new calculation
  xx,            \* wave-vector grid
  phi,           \* ideal density response, nx*nl cells
  SSHF,          \* Hartree-Fock static structure factor, nx cells
  GG,            \* static local field correction (mixed)
  GG_new,        \* static local field correction (last closure update)
  SS,            \* static structure factor
  iter_counter,  \* solve_stls: iteration counter
  iter_err,      \* solve_stls: residual of the last iteration
  err_from,      \* versions of (GG_new, GG) the residual was computed from
  n_slfc,        \* number of compute_slfc calls of the run
  disk,          \* the binary restart file on disk
  text_out,      \* content of ssf_STLS.dat / slfc_STLS.dat, once written
  stdout,        \* kinds of messages printed so far
  exit_code,     \* "running", "success" (return to caller) or "failure"
  verbose,       \* solve_stls: the verbose argument
  loaded,        \* what read_bin handed back (restart file programs)
  cin,           \* dynamic QSTLS-IET: the input record of the current run
  crun,          \* dynamic QSTLS-IET: number of the current run (1 or 2)
  cgrid,         \* the four nx*nW density-response arrays of each run
  cout,          \* the responses at the target wave-vector of each run
  cfile,         \* the dynamic_adr_..._.bin file on disk
  ctamper,       \* what happened to the file between the two runs
  cres,          \* outcome of read_fixed_dynamic_qstls_iet
  dyn,           \* compute_dynamic_qstls_iet: input, what it did so far, status
  ssf,           \* one wave-vector: arguments and results of compute_ssf, Ssf::get
  cli,           \* get_input: command line left, input record, grid built from it
  obj,           \* StlsInput object: setter calls left, fields, grid of Rpa
  mu,            \* compute_mu: bracket, iteration counter, solver status
  omp,           \* parallel phase of compute_dynamic_adr_iet_re_lev1
  quad           \* middle integral of the auxiliary response: grid, limits

vars == <<pc, in, init_flag, xx, phi, SSHF, GG, GG_new, SS, iter_counter,
          iter_err, err_from, n_slfc, disk, text_out, stdout, exit_code,
          verbose, loaded, cin, crun, cgrid, cout, cfile, ctamper, cres,
          dyn, ssf, cli, obj, mu, omp, quad>>

laterVars == <<dyn, ssf, cli, obj, mu, omp, quad>>
cacheVars == <<cin, crun, cgrid, cout, cfile, ctamper, cres>>
stlsVars == <<init_flag, xx, GG, GG_new, SS, iter_counter, iter_err, err_from,
              n_slfc, text_out, stdout, exit_code, verbose>>

(***************************************************************************)
(* Bounds of the model                                                     *)
(***************************************************************************)
MaxNx == 2
MaxNl == 2
MaxIter == 2

(***************************************************************************)
(* Doubles                                                                 *)
(***************************************************************************)
Fin(n) == [cls |-> "fin", v |-> n]
NaN == [cls |-> "nan", v |-> 0]
Inf == [cls |-> "inf", v |-> 0]

\* a > b for doubles, b finite: false whenever a is NaN
FGt(a, b) ==
  CASE a.cls = "nan" -> FALSE
    [] a.cls = "inf" -> TRUE
    [] OTHER -> a.v > b.v

\* a <= b for doubles, b finite: false whenever a is NaN
FLe(a, b) ==
  CASE a.cls = "nan" -> FALSE
    [] a.cls = "inf" -> FALSE
    [] OTHER -> a.v <= b.v

IsSentinel(a) == a.cls \in {"nan", "inf"}

\* 1.0 in the units of the residual (iter_err = 1.0)
ErrOne == 2

\* a_mix = in.a_mix / AMixDen
AMixDen == 2

(***************************************************************************)
(* Cells of the arrays phi and SSHF                                        *)
(***************************************************************************)
\* value of the Lindhard integral at wave-vector index ii, Matsubara index ll
phil(ii, ll, theta) == [op |-> "phil", i |-> ii, l |-> ll, th |-> theta]
\* value of the Hartree-Fock integral at wave-vector index ii
ssfHF(ii, theta) == [op |-> "ssfHF", i |-> ii, l |-> 0, th |-> theta]
\* a cell of malloc'ed memory that was never written
Uninit == [op |-> "uninit", i |-> 0, l |-> 0, th |-> 0]

\* a two-dimensional index with the first index major
idx2_first_major(x, y, x_size) == (x * x_size) + y

\* idx2(xx, yy, x_size): offset of element (xx, yy), 0-based
idx2(x, y, x_size) == (y * x_size) + x

(***************************************************************************)
(* The input record                                                        *)
(***************************************************************************)
NO_FILE == "NO_FILE"
RESTART_FILE == "dens_response.bin"

\* chemical potential not computed yet
NoMu == [root_for |-> 0]

\* the grid step, in units of half a grid step, so that dx/2.0 is exact
GridDx == 2

\* the residual thresholds of the model: below 1.0 and exactly 1.0
ErrVals == {ErrOne - 1, ErrOne}

InputRecord(theta, nx, nl, nIter, err, a, file) ==
  [Theta |-> theta, rs |-> 1, dx |-> GridDx, xmax |-> GridDx * nx,
   nx |-> nx, nl |-> nl, nIter |-> nIter, err_min_iter |-> err,
   a_mix |-> a, mu |-> NoMu, phi_file |-> file]

\* the input records that pass the validation: nIter >= 0, err_min_iter > 0,
\* 0 < a_mix <= 1, nl > 0, nx = floor(xmax/dx)
Inputs(theta, files) ==
  { InputRecord(theta, nx, nl, nIter, err, a, file) :
      nx \in 1..MaxNx, nl \in 1..MaxNl, nIter \in 0..MaxIter,
      err \in ErrVals, a \in 1..AMixDen, file \in files }

(***************************************************************************)
(* Arrays G, G_new, S: the operation that filled the array, the version of *)
(* the argument it was computed from, its length, and whether its content  *)
(* depends on memory that was never written                                *)
(***************************************************************************)
Arr(op, ver, n, ub) == [op |-> op, ver |-> ver, n |-> n, ub |-> ub]

NoArr == Arr("none", 0, 0, FALSE)

\* malloc(sizeof(double) * n): content indeterminate
Malloc(n) == Arr("malloc", 0, n, TRUE)

UninitCells(n) == [k \in 1..n |-> Uninit]

(***************************************************************************)
(* compute_mu, wave_vector_grid, compute_phi, compute_ssfHF                *)
(***************************************************************************)
compute_mu(inp) == [root_for |-> inp.Theta]

RECURSIVE GridFrom(_, _, _)
\* n additions of dx starting from prev: prev + dx, prev + dx + dx, ...
GridFrom(prev, n, dx) == [k \in 1..n |-> prev + k * dx]

\* xx[0] = dx/2.0; xx[ii] = xx[ii-1] + dx
wave_vector_grid(inp) ==
  IF inp.nx <= 0 THEN <<>>
  ELSE <<inp.dx \div 2>> \o GridFrom(inp.dx \div 2, inp.nx - 1, inp.dx)

\* the (ii, ll) whose cell is stored at 0-based offset k: phi[idx2(ii,ll,nx)]
PhiSource(k, inp) ==
  CHOOSE p \in (0..(inp.nx - 1)) \X (0..(inp.nl - 1)) :
    idx2(p[1], p[2], inp.nx) = k

\* for ll < nl: for ii < nx: phi[idx2(ii,ll,in.nx)] = phil[ii]
compute_phi(inp) ==
  [k \in 1..(inp.nx * inp.nl) |->
     IF \E p \in (0..(inp.nx - 1)) \X (0..(inp.nl - 1)) :
          idx2(p[1], p[2], inp.nx) = k - 1
     THEN phil(PhiSource(k - 1, inp)[1], PhiSource(k - 1, inp)[2], inp.Theta)
     ELSE Uninit]

compute_ssfHF(inp) == [k \in 1..inp.nx |-> ssfHF(k - 1, inp.Theta)]

(***************************************************************************)
(* compute_ssf and compute_slfc                                            *)
(***************************************************************************)
\* cells compute_ssf reads at wave-vector index ii (0-based)
\* the cell at 0-based offset k of arr; outside the block it is indeterminate
Cell(arr, k) == IF k + 1 \in DOMAIN arr THEN arr[k + 1] ELSE Uninit

SsfReadsUninit(hf, ph, x, inp) ==
  \E ii \in 0..(inp.nx - 1) :
    /\ x[ii + 1] > 0
    /\ \/ Cell(hf, ii) = Uninit
       \/ \E ll \in 0..(inp.nl - 1) : Cell(ph, idx2(ii, ll, inp.nx)) = Uninit

compute_ssf(hf, G, ph, x, inp) ==
  Arr("ssf", G.ver, inp.nx, G.ub \/ SsfReadsUninit(hf, ph, x, inp))

\* GG[ii] = dx * sum over jj < nx-1 of slfc(xx[jj], xx[ii], SS[jj])
compute_slfc(S, x, inp) ==
  IF inp.nx - 1 <= 0
  THEN Arr("0.0", S.ver, inp.nx, FALSE)
  ELSE Arr("slfc", S.ver, inp.nx, S.ub)

\* GG[ii] = a_mix*GG_new[ii] + (1-a_mix)*GG[ii]
Mix(Gn, G, inp) == Arr("mix", G.ver + 1, inp.nx, Gn.ub \/ G.ub)

\* what sqrt(sum (GG_new[ii]-GG[ii])^2) can evaluate to
Residuals(Gn, G, inp) ==
  IF inp.nx <= 0 \/ (Gn.op = "0.0" /\ G.op = "0.0")
  THEN {Fin(0)}
  ELSE {Fin(0), Fin(inp.err_min_iter), Fin(inp.err_min_iter + 1), NaN, Inf}

\* a residual taken after the mixing instead of before it
ResidualOfMixed(Gn, G) == [new |-> Gn.ver, old |-> G.ver + 1]

\* the versions of GG_new and GG that enter the residual
ResidualOf(Gn, G) == [new |-> Gn.ver, old |-> G.ver]

(***************************************************************************)
(* The binary restart file: the input record, then phi, then SSHF.  A file *)
(* holds nrec complete input records (0 when it is shorter than one) and   *)
(* the doubles that follow it.                                             *)
(***************************************************************************)
NoDisk == [exists |-> FALSE, nrec |-> 0, rec |-> InputRecord(0, 0, 0, 0, 0, 0, NO_FILE),
           body |-> <<>>]

\* a writer that puts SSHF before phi
write_bin_SSHF_first(ph, hf, inp) ==
  [exists |-> TRUE, nrec |-> 1, rec |-> inp,
   body |-> SubSeq(hf, 1, inp.nx) \o SubSeq(ph, 1, inp.nx * inp.nl)]

\* fwrite(&in, sizeof(input), 1); fwrite(phi, nx*nl); fwrite(SSHF, nx)
write_bin(ph, hf, inp) ==
  [exists |-> TRUE, nrec |-> 1, rec |-> inp,
   body |-> SubSeq(ph, 1, inp.nx * inp.nl) \o SubSeq(hf, 1, inp.nx)]

\* the first k items of a file (item 1 is the input record)
Truncated(f, k) ==
  IF k = 0 THEN [f EXCEPT !.nrec = 0, !.body = <<>>]
  ELSE [f EXCEPT !.body = SubSeq(f.body, 1, k - 1)]

FileItems(f) == f.nrec + Len(f.body)

\* fread(buf, sizeof(double), n) at 0-based offset pos of the doubles of f:
\* the cells of buf afterwards, buf being freshly malloc'ed
Fread(f, pos, n) ==
  [k \in 1..n |-> IF pos + k <= Len(f.body) THEN f.body[pos + k] ELSE Uninit]

\* read_bin: the record and the arrays it hands back.  garbage is what
\* in_load holds when fread did not fill it.  No return value is checked.
read_bin(f, garbage) ==
  LET in_load == IF f.nrec >= 1 THEN f.rec ELSE garbage
      ld  == [in_load EXCEPT !.mu = compute_mu(in_load)]
      nphi    == ld.nx * ld.nl
  IN  [in_load |-> ld,
       xx      |-> wave_vector_grid(ld),
       phi     |-> Fread(f, 0, nphi),
       SSHF    |-> Fread(f, nphi, ld.nx)]

\* in->Theta, dx, xmax, nx, nl, mu are taken from the file
AssignOutput(inp, ld) ==
  [inp EXCEPT !.Theta = ld.Theta, !.dx = ld.dx, !.xmax = ld.xmax,
              !.nx = ld.nx, !.nl = ld.nl, !.mu = ld.mu]

\* what an input record that fread left unfilled may hold
GarbageRecords ==
  { InputRecord(0, nx, nl, 0, 1, 1, NO_FILE) : nx \in 0..MaxNx, nl \in 0..MaxNl }

\* the restart files a run may find: none, or the file of an earlier run,
\* whole or cut short after any number of items
EarlierRuns == Inputs(2, {NO_FILE})

FileOfRun(r) ==
  write_bin(compute_phi(r), compute_ssfHF(r), [r EXCEPT !.mu = compute_mu(r)])

RestartFiles ==
  {NoDisk} \cup
  UNION { { Truncated(FileOfRun(r), k) : k \in 0..FileItems(FileOfRun(r)) } :
          r \in { e \in EarlierRuns :
                    e.nIter = 0 /\ e.err_min_iter = ErrOne /\ e.a_mix = 1 } }

Intact(f) == f.exists /\ f.nrec = 1 /\ Len(f.body) = f.rec.nx * f.rec.nl + f.rec.nx

(***************************************************************************)
(* The file of the dynamic QSTLS-IET density responses.  A file is a       *)
(* sequence of 4-byte words followed by 0..3 further bytes; an int takes   *)
(* one word, a double two (a low and a high half).                         *)
(***************************************************************************)
MaxCNx == 2
MaxNW == 2
\* bytes appended to a file by the environment, at most
MaxTrail == 5

\* sizeof(int), in bytes
SizeofInt == 4

\* fabs(a - b) > DBL_TOL rejects; the reals of the file and of the input are
\* counted in units of DBL_TOL
DBL_TOL == 1

IntWord(n) == [k |-> "int", v |-> n]
DoubleWords(d) == <<[k |-> "lo", v |-> d], [k |-> "hi", v |-> d]>>

\* the bits of a word read as an int, of two words read as a double; words
\* that are not what is read give a value no input holds
AsInt(w) == IF w.k = "int" THEN w.v ELSE -1 - w.v
AsDouble(w1, w2) ==
  IF w1.k = "lo" /\ w2.k = "hi" /\ w1.v = w2.v THEN w1.v ELSE -1 - w1.v

RECURSIVE ArrayWords(_)
ArrayWords(arr) ==
  IF Len(arr) = 0 THEN <<>> ELSE DoubleWords(Head(arr)) \o ArrayWords(Tail(arr))

\* the input of a run: nx = floor(xmax/dx); nW is what
\* get_frequency_grid_size left in the record
CacheInput(dx, xmax, nW, dW, Wmax, theta, rs, file) ==
  [nx |-> xmax \div dx, dx |-> dx, xmax |-> xmax,
   nW |-> nW, dyn_dW |-> dW, dyn_Wmax |-> Wmax,
   Theta |-> theta, rs |-> rs, dyn_adr_file |-> file]

\* the reals of the model: grid steps of 4 units, cutoffs between two points
CacheStep == 4
CacheInputs ==
  { CacheInput(CacheStep, CacheStep * nx + 2, nW, CacheStep, CacheStep * nW + 2,
               CacheStep, CacheStep, NO_FILE) :
      nx \in 1..MaxCNx, nW \in 1..MaxNW }

Abs(a) == IF a < 0 THEN -a ELSE a

Grids(a, b, c, d) == [phi_re |-> a, phi_im |-> b, psi_re |-> c, psi_im |-> d]

\* an nx*nW array of malloc'ed memory
UninitDouble == -1
MallocGrid(inp) == [k \in 1..(inp.nx * inp.nW) |-> UninitDouble]
NoGrids == Grids(<<>>, <<>>, <<>>, <<>>)

\* a writer that puts the imaginary part of the ideal response first
write_fixed_phi_im_first(g, inp) ==
  [exists |-> TRUE,
   words  |-> <<IntWord(inp.nx)>> \o DoubleWords(inp.dx) \o DoubleWords(inp.xmax)
              \o <<IntWord(inp.nW)>> \o DoubleWords(inp.dyn_dW)
              \o DoubleWords(inp.dyn_Wmax) \o DoubleWords(inp.Theta)
              \o DoubleWords(inp.rs)
              \o ArrayWords(SubSeq(g.phi_im, 1, inp.nx * inp.nW))
              \o ArrayWords(SubSeq(g.phi_re, 1, inp.nx * inp.nW))
              \o ArrayWords(SubSeq(g.psi_re, 1, inp.nx * inp.nW))
              \o ArrayWords(SubSeq(g.psi_im, 1, inp.nx * inp.nW)),
   extra  |-> 0]

\* fwrite of the eight header items, then of the four arrays
write_fixed_dynamic_qstls_iet(g, inp) ==
  [exists |-> TRUE,
   words  |-> <<IntWord(inp.nx)>> \o DoubleWords(inp.dx) \o DoubleWords(inp.xmax)
              \o <<IntWord(inp.nW)>> \o DoubleWords(inp.dyn_dW)
              \o DoubleWords(inp.dyn_Wmax) \o DoubleWords(inp.Theta)
              \o DoubleWords(inp.rs)
              \o ArrayWords(SubSeq(g.phi_re, 1, inp.nx * inp.nW))
              \o ArrayWords(SubSeq(g.phi_im, 1, inp.nx * inp.nW))
              \o ArrayWords(SubSeq(g.psi_re, 1, inp.nx * inp.nW))
              \o ArrayWords(SubSeq(g.psi_im, 1, inp.nx * inp.nW)),
   extra  |-> 0]

NoCacheFile == [exists |-> FALSE, words |-> <<>>, extra |-> 0]

\* fread(&x, sizeof(int), 1, fid) with pos words consumed: items read
FreadIntItems(f, pos) == IF pos + 1 <= Len(f.words) THEN 1 ELSE 0
\* fread(buf, sizeof(double), n, fid) with pos words consumed: items read
FreadDoubleItems(f, pos, n) ==
  IF pos + 2 * n <= Len(f.words) THEN n
  ELSE IF pos >= Len(f.words) THEN 0 ELSE (Len(f.words) - pos) \div 2
\* words consumed after a read of w words: a short read ends at the end
Advance(f, pos, w) == IF pos + w <= Len(f.words) THEN pos + w ELSE Len(f.words)

\* buf after fread(buf, sizeof(double), n, fid) into malloc'ed memory of
\* size cells
FreadDoubles(f, pos, n, size) ==
  [k \in 1..size |->
     IF k <= FreadDoubleItems(f, pos, n)
     THEN AsDouble(f.words[pos + 2 * k - 1], f.words[pos + 2 * k])
     ELSE UninitDouble]

\* the eight header variables after the eight freads; a variable that was
\* not read holds what garbage says
HeaderOffsets == <<0, 1, 3, 5, 6, 8, 10, 12>>
HeaderSizes == <<1, 2, 2, 1, 2, 2, 2, 2>>
HeaderWords == 14
HeaderItems == 8

HeaderItemRead(f, i) == HeaderOffsets[i] + HeaderSizes[i] <= Len(f.words)

HeaderValue(f, i, garbage) ==
  IF ~HeaderItemRead(f, i) THEN garbage[i]
  ELSE IF HeaderSizes[i] = 1 THEN AsInt(f.words[HeaderOffsets[i] + 1])
  ELSE AsDouble(f.words[HeaderOffsets[i] + 1], f.words[HeaderOffsets[i] + 2])

ReadHeader(f, garbage) ==
  [nx |-> HeaderValue(f, 1, garbage), dx |-> HeaderValue(f, 2, garbage),
   xmax |-> HeaderValue(f, 3, garbage), nW |-> HeaderValue(f, 4, garbage),
   dW |-> HeaderValue(f, 5, garbage), Wmax |-> HeaderValue(f, 6, garbage),
   Theta |-> HeaderValue(f, 7, garbage), rs |-> HeaderValue(f, 8, garbage),
   it_read |-> Cardinality({i \in 1..HeaderItems : HeaderItemRead(f, i)})]

\* check_dynamic_qstls_iet, check_grid part: true when it exits
GridCheckFails(h, inp) ==
  \/ h.nx # inp.nx \/ Abs(h.dx - inp.dx) > DBL_TOL
                   \/ Abs(h.xmax - inp.xmax) > DBL_TOL
  \/ h.nW # inp.nW \/ Abs(h.dW - inp.dyn_dW) > DBL_TOL
                   \/ Abs(h.Wmax - inp.dyn_Wmax) > DBL_TOL
  \/ Abs(h.Theta - inp.Theta) > DBL_TOL \/ Abs(h.rs - inp.rs) > DBL_TOL

\* check_dynamic_qstls_iet, check_items part: true when it exits
ItemsCheckFails(it_read, it_expected) == it_read # it_expected

\* check_dynamic_qstls_iet, check_eof part: fread of one int, then
\* !feof(fid); true when it exits.  feof is set only by a read that hits
\* the end of the file
EofCheckFails(f, pos) == FreadIntItems(f, pos) = 1

\* check_dynamic_qstls_iet: true when it exits with EXIT_FAILURE
check_dynamic_qstls_iet(h, inp, it_read, it_expected, f, pos, check_grid, check_items, check_eof) ==
  \/ check_grid /\ GridCheckFails(h, inp)
  \/ check_items /\ ItemsCheckFails(it_read, it_expected)
  \/ check_eof /\ EofCheckFails(f, pos)

\* a first call that leaves the grid check to the second call
HeaderCheckItemsOnly(h, inp, f) ==
  check_dynamic_qstls_iet(h, inp, h.it_read, HeaderItems, f, HeaderWords,
                          FALSE, TRUE, FALSE)

\* the first call: check_grid and check_items, no check_eof
HeaderCheckFails(h, inp, f) ==
  check_dynamic_qstls_iet(h, inp, h.it_read, HeaderItems, f, HeaderWords,
                          TRUE, TRUE, FALSE)

\* read_fixed_dynamic_qstls_iet: the outcome and the four arrays
read_fixed_dynamic_qstls_iet(f, inp, garbage) ==
  LET h      == ReadHeader(f, garbage)
      n      == h.nx * h.nW
      size   == inp.nx * inp.nW
      p0     == Advance(f, 0, HeaderWords)
      n1     == FreadDoubleItems(f, p0, n)
      p1     == Advance(f, p0, 2 * n)
      n2     == FreadDoubleItems(f, p1, n)
      p2     == Advance(f, p1, 2 * n)
      n3     == FreadDoubleItems(f, p2, n)
      p3     == Advance(f, p2, 2 * n)
      n4     == FreadDoubleItems(f, p3, n)
      p4     == Advance(f, p3, 2 * n)
      it_read == h.it_read + n1 + n2 + n3 + n4
  IN  IF HeaderCheckFails(h, inp, f)
      THEN [status |-> "failure", body_read |-> FALSE, overflow |-> FALSE,
            nx_file |-> h.nx, nW_file |-> h.nW, hdr |-> h,
            grids |-> Grids(MallocGrid(inp), MallocGrid(inp), MallocGrid(inp),
                            MallocGrid(inp))]
      ELSE [status |-> IF check_dynamic_qstls_iet(h, inp, it_read, 4 * n + HeaderItems,
                                                   f, p4, FALSE, TRUE, TRUE)
                       THEN "failure" ELSE "success",
            body_read |-> TRUE, overflow |-> n > size,
            nx_file |-> h.nx, nW_file |-> h.nW, hdr |-> h,
            grids |-> Grids(FreadDoubles(f, p0, n, size), FreadDoubles(f, p1, n, size),
                            FreadDoubles(f, p2, n, size), FreadDoubles(f, p3, n, size))]

NoRead == [status |-> "none", body_read |-> FALSE, overflow |-> FALSE,
           nx_file |-> 0, nW_file |-> 0,
           hdr |-> [nx |-> 0, dx |-> 0, xmax |-> 0, nW |-> 0, dW |-> 0,
                    Wmax |-> 0, Theta |-> 0, rs |-> 0, it_read |-> 0],
           grids |-> NoGrids]

\* lines 325-342: for each frequency the nx values of one array, handed to
\* the spline that is evaluated at xTarget
Slices(arr, inp) ==
  [jj \in 1..inp.nW |->
     [ii \in 1..inp.nx |-> arr[idx2(ii - 1, jj - 1, inp.nx) + 1]]]

Interpolate(g, inp) ==
  Grids(Slices(g.phi_re, inp), Slices(g.phi_im, inp),
        Slices(g.psi_re, inp), Slices(g.psi_im, inp))

NoLoad == [in |-> InputRecord(0, 0, 0, 0, 0, 0, NO_FILE), phi |-> <<>>, SSHF |-> <<>>]

BinIdle == loaded = NoLoad

CacheIdle ==
  /\ cin = CacheInput(1, 0, 0, 1, 0, 0, 0, NO_FILE)
  /\ crun = 0
  /\ cgrid = <<NoGrids, NoGrids>>
  /\ cout = <<NoGrids, NoGrids>>
  /\ cfile = NoCacheFile
  /\ ctamper = "none"
  /\ cres = NoRead

StlsIdle ==
  /\ init_flag = TRUE
  /\ xx = <<>>
  /\ GG = NoArr
  /\ GG_new = NoArr
  /\ SS = NoArr
  /\ iter_counter = 0
  /\ iter_err = Fin(0)
  /\ err_from = [new |-> 0, old |-> 0]
  /\ n_slfc = 0
  /\ text_out = [written |-> FALSE, ssf |-> NoArr, slfc |-> NoArr]
  /\ stdout = {}
  /\ exit_code = "running"
  /\ verbose = FALSE

(***************************************************************************)
(* Exact arithmetic for the closed formulas: a finite double is a fraction *)
(* n/d with d > 0; a division by zero and everything computed from it is   *)
(* NotFinite (an infinity or a NaN).                                       *)
(***************************************************************************)
Rat(n, d) == [cls |-> "fin", n |-> n, d |-> d]
NotFinite == [cls |-> "notfinite", n |-> 0, d |-> 1]
NotCalled == [cls |-> "none", n |-> 0, d |-> 1]

RFinite(a, b) == a.cls = "fin" /\ b.cls = "fin"
RAdd(a, b) == IF RFinite(a, b) THEN Rat(a.n * b.d + b.n * a.d, a.d * b.d) ELSE NotFinite
RSub(a, b) == IF RFinite(a, b) THEN Rat(a.n * b.d - b.n * a.d, a.d * b.d) ELSE NotFinite
RMul(a, b) == IF RFinite(a, b) THEN Rat(a.n * b.n, a.d * b.d) ELSE NotFinite
RDiv(a, b) ==
  IF ~RFinite(a, b) \/ b.n = 0 THEN NotFinite
  ELSE IF b.n > 0 THEN Rat(a.n * b.d, a.d * b.n)
  ELSE Rat(-(a.n * b.d), a.d * (-b.n))
\* a == b of two doubles: false when one of them is a NaN
REq(a, b) == RFinite(a, b) /\ a.n * b.d = b.n * a.d

\* M_PI and lambda = (4/(9 pi))^(1/3), to the nearest fraction of the model
PiNum == 3
LambdaDen == 2
RPi == Rat(PiNum, 1)
RLambda == Rat(1, LambdaDen)

\* one wave-vector x with its G (slfc), its nl values of phi (idr) and its
\* S_HF, at a state point (rs, Theta)
SsfCase(x, rs, theta, G, ph, hf) ==
  [x |-> x, rs |-> rs, Theta |-> theta, G |-> G, phi |-> ph, hf |-> hf,
   by_c |-> NotCalled, by_cpp |-> NotCalled]

(***************************************************************************)
(* compute_dynamic_qstls_iet: the record of a run                          *)
(***************************************************************************)
DynRun(theta, file, static, vb) ==
  [Theta |-> theta, dyn_adr_file |-> file, qstls_iet_static |-> static,
   verbose |-> vb,
   did |-> <<>>, adr |-> <<>>, printed |-> {}, status |-> "running"]

\* the variables of the programs that are not running
NotStarted == [status |-> "none"]

IdleBut(s) ==
  /\ IF s = "dyn" THEN TRUE ELSE dyn = DynRun(0, NO_FILE, FALSE, FALSE)
  /\ IF s = "ssf" THEN TRUE ELSE ssf = SsfCase(0, 0, 0, 0, <<>>, 0)
  /\ IF s = "cli" THEN TRUE ELSE cli = NotStarted
  /\ IF s = "obj" THEN TRUE ELSE obj = NotStarted
  /\ IF s = "mu" THEN TRUE ELSE mu = NotStarted
  /\ IF s = "omp" THEN TRUE ELSE omp = NotStarted
  /\ IF s = "quad" THEN TRUE ELSE quad = NotStarted

LaterIdle == IdleBut("none")

(***************************************************************************)
(* solve_stls                                                              *)
(***************************************************************************)
NoText == [written |-> FALSE, ssf |-> NoArr, slfc |-> NoArr]

Say(msgs) == IF verbose THEN stdout \cup msgs ELSE stdout

Init ==
  /\ pc = "start"
  /\ verbose \in BOOLEAN
  /\ \E file \in {NO_FILE, RESTART_FILE} :
       /\ in \in Inputs(1, {file})
       /\ disk \in (IF file = NO_FILE THEN {NoDisk} ELSE RestartFiles)
  /\ init_flag = TRUE
  /\ xx = <<>>
  /\ phi = <<>>
  /\ SSHF = <<>>
  /\ GG = NoArr
  /\ GG_new = NoArr
  /\ SS = NoArr
  /\ iter_counter = 0
  /\ iter_err = Fin(0)
  /\ err_from = [new |-> 0, old |-> 0]
  /\ n_slfc = 0
  /\ text_out = NoText
  /\ stdout = {}
  /\ exit_code = "running"
  /\ BinIdle
  /\ CacheIdle
  /\ LaterIdle

\* lines 35-40 and 46-56: brand new calculation, arrays allocated
StartFresh ==
  /\ pc = "start"
  /\ in.phi_file = NO_FILE
  /\ init_flag' = TRUE
  /\ xx' = [k \in 1..in.nx |-> 0]
  /\ phi' = UninitCells(in.nx * in.nl)
  /\ SSHF' = UninitCells(in.nx)
  /\ GG' = Malloc(in.nx)
  /\ GG_new' = Malloc(in.nx)
  /\ SS' = Malloc(in.nx)
  /\ stdout' = stdout \cup {"parameters"}
  /\ pc' = "fixed"
  /\ UNCHANGED <<laterVars, in, iter_counter, iter_err, err_from, n_slfc, disk, text_out,
                 exit_code, verbose, loaded, cacheVars>>

\* lines 41-43 and 46-56: data loaded from file with read_bin
StartRestart ==
  /\ pc = "start"
  /\ in.phi_file # NO_FILE
  /\ disk.exists
  /\ \E garbage \in GarbageRecords :
       LET r == read_bin(disk, garbage) IN
         /\ in' = AssignOutput(in, r.in_load)
         /\ xx' = r.xx
         /\ phi' = r.phi
         /\ SSHF' = r.SSHF
         /\ GG' = Malloc(r.in_load.nx)
         /\ GG_new' = Malloc(r.in_load.nx)
         /\ SS' = Malloc(r.in_load.nx)
  /\ init_flag' = FALSE
  /\ stdout' = stdout \cup {"parameters"}
  /\ pc' = "guess"
  /\ UNCHANGED <<laterVars, iter_counter, iter_err, err_from, n_slfc, disk, text_out,
                 exit_code, verbose, loaded, cacheVars>>

\* read_bin lines 617-621: the file cannot be opened
RestartOpenFails ==
  /\ pc = "start"
  /\ in.phi_file # NO_FILE
  /\ ~disk.exists
  /\ init_flag' = FALSE
  /\ exit_code' = "failure"
  /\ pc' = "exit"
  /\ UNCHANGED <<laterVars, in, xx, phi, SSHF, GG, GG_new, SS, iter_counter, iter_err,
                 err_from, n_slfc, disk, text_out, stdout, verbose, loaded,
                 cacheVars>>

\* lines 59-81: chemical potential, grid, phi and SSHF of a new calculation
ComputeFixed ==
  /\ pc = "fixed"
  /\ init_flag
  /\ in' = [in EXCEPT !.mu = compute_mu(in)]
  /\ xx' = wave_vector_grid(in)
  /\ phi' = compute_phi(in')
  /\ SSHF' = compute_ssfHF(in')
  /\ stdout' = Say({"fixed"})
  /\ pc' = "guess"
  /\ UNCHANGED <<laterVars, init_flag, GG, GG_new, SS, iter_counter, iter_err, err_from,
                 n_slfc, disk, text_out, exit_code, verbose, loaded, cacheVars>>

\* lines 83-93: initial guess, first SSF, iter_err = 1.0, iter_counter = 0
InitialGuess ==
  /\ pc = "guess"
  /\ GG' = Arr("0.0", 0, in.nx, FALSE)
  /\ GG_new' = Arr("1.0", 0, in.nx, FALSE)
  /\ SS' = compute_ssf(SSHF, GG', phi, xx, in)
  /\ iter_err' = Fin(ErrOne)
  /\ iter_counter' = 0
  /\ stdout' = Say({"SSF and SLFC calculation"})
  /\ pc' = "loop"
  /\ UNCHANGED <<laterVars, in, init_flag, xx, phi, SSHF, err_from, n_slfc, disk,
                 text_out, exit_code, verbose, loaded, cacheVars>>

\* line 94: while (iter_counter < in.nIter && iter_err > in.err_min_iter)
LoopCondition ==
  iter_counter < in.nIter /\ FGt(iter_err, Fin(in.err_min_iter))

\* line 100: compute_slfc(GG_new, SS, xx, in)
UpdateSlfc ==
  /\ pc = "loop"
  /\ LoopCondition
  /\ GG_new' = compute_slfc(SS, xx, in)
  /\ n_slfc' = n_slfc + 1
  /\ pc' = "diag"
  /\ UNCHANGED <<laterVars, in, init_flag, xx, phi, SSHF, GG, SS, iter_counter, iter_err,
                 err_from, disk, text_out, stdout, exit_code, verbose, loaded, cacheVars>>

\* lines 103-109: residual against the old GG, counter, mixing
UpdateDiagnostic ==
  /\ pc = "diag"
  /\ iter_err' \in Residuals(GG_new, GG, in)
  /\ err_from' = ResidualOf(GG_new, GG)
  /\ iter_counter' = iter_counter + 1
  /\ GG' = Mix(GG_new, GG, in)
  /\ pc' = "ssf"
  /\ UNCHANGED <<laterVars, in, init_flag, xx, phi, SSHF, GG_new, SS, n_slfc, disk,
                 text_out, stdout, exit_code, verbose, loaded, cacheVars>>

\* lines 112-122: compute_ssf with the mixed GG, diagnostic of the iteration
UpdateSsf ==
  /\ pc = "ssf"
  /\ SS' = compute_ssf(SSHF, GG, phi, xx, in)
  /\ stdout' = Say({"iteration", "Residual error"})
  /\ pc' = "loop"
  /\ UNCHANGED <<laterVars, in, init_flag, xx, phi, SSHF, GG, GG_new, iter_counter,
                 iter_err, err_from, n_slfc, disk, text_out, exit_code, verbose, loaded, cacheVars>>

\* write_text: ssf_STLS.dat and slfc_STLS.dat
write_text(S, G) == [written |-> TRUE, ssf |-> S, slfc |-> G]

\* WriteOutput with write_bin called whatever init_flag says
WriteOutput_always_bin ==
  /\ pc = "loop"
  /\ ~LoopCondition
  /\ stdout' = Say({"Done", "Internal energy", "Writing output files"})
  /\ text_out' = write_text(SS, GG)
  /\ disk' = write_bin(phi, SSHF, in)
  /\ exit_code' = "success"
  /\ pc' = "done"
  /\ UNCHANGED <<laterVars, in, init_flag, xx, phi, SSHF, GG, GG_new, SS, iter_counter,
                 iter_err, err_from, n_slfc, verbose, loaded, cacheVars>>

\* lines 124-149: loop left, output written, return to the caller
WriteOutput ==
  /\ pc = "loop"
  /\ ~LoopCondition
  /\ stdout' = Say({"Done", "Internal energy", "Writing output files"})
  /\ text_out' = write_text(SS, GG)
  /\ disk' = IF init_flag THEN write_bin(phi, SSHF, in) ELSE disk
  /\ exit_code' = "success"
  /\ pc' = "done"
  /\ UNCHANGED <<laterVars, in, init_flag, xx, phi, SSHF, GG, GG_new, SS, iter_counter,
                 iter_err, err_from, n_slfc, verbose, loaded, cacheVars>>

Next ==
  \/ StartFresh
  \/ StartRestart
  \/ RestartOpenFails
  \/ ComputeFixed
  \/ InitialGuess
  \/ UpdateSlfc
  \/ UpdateDiagnostic
  \/ UpdateSsf
  \/ WriteOutput

Spec == Init /\ [][Next]_vars

(***************************************************************************)
(* Claims about solve_stls (specification Spec)                            *)
(***************************************************************************)
(***************************************************************************)
(* write_bin followed by read_bin, on every input record and every content *)
(* of phi and SSHF                                                         *)
(***************************************************************************)
BinCells == {phil(0, 0, 1), ssfHF(0, 1)}

\* the input records of the run that reads the file
BinCallers ==
  { InputRecord(1, nx, nl, 1, ErrOne, 1, RESTART_FILE) :
      nx \in 1..MaxNx, nl \in 1..MaxNl }

BinInit ==
  /\ pc = "bin_start"
  /\ in \in { InputRecord(theta, nx, nl, 0, ErrOne, 1, NO_FILE) :
                theta \in 1..2, nx \in 1..MaxNx, nl \in 1..MaxNl }
  /\ phi \in [1..(in.nx * in.nl) -> BinCells]
  /\ SSHF \in [1..in.nx -> BinCells]
  /\ disk = NoDisk
  /\ StlsIdle
  /\ BinIdle
  /\ CacheIdle
  /\ LaterIdle

\* lines 557-580
BinWrite ==
  /\ pc = "bin_start"
  /\ disk' = write_bin(phi, SSHF, in)
  /\ pc' = "bin_written"
  /\ UNCHANGED <<laterVars, in, phi, SSHF, stlsVars, loaded, cacheVars>>

\* lines 602-660, called with an input record of another run whose
\* phi_file names the file
BinRead ==
  /\ pc = "bin_written"
  /\ \E caller \in BinCallers, garbage \in GarbageRecords :
       LET r == read_bin(disk, garbage)
       IN  loaded' = [in   |-> AssignOutput(caller, r.in_load),
                      phi  |-> r.phi,
                      SSHF |-> r.SSHF]
  /\ pc' = "bin_read"
  /\ UNCHANGED <<laterVars, in, phi, SSHF, disk, stlsVars, cacheVars>>

BinNext == BinWrite \/ BinRead

SpecBin == BinInit /\ [][BinNext]_vars

(***************************************************************************)
(* compute_dynamic_adr_iet, run twice: the first run computes the density  *)
(* responses and writes the file, the second run is pointed at the file,   *)
(* which the environment may have left alone, cut, extended or changed.    *)
(***************************************************************************)
CACHE_FILE == "dynamic_adr.bin"

\* compute_dynamic_idr_iet and compute_dynamic_adr_iet_pd: array a of the
\* four, every cell with a value of its own
ComputedGrid(a, inp) == [k \in 1..(inp.nx * inp.nW) |-> 100 * a + k]
compute_dynamic_grids(inp) ==
  Grids(ComputedGrid(1, inp), ComputedGrid(2, inp),
        ComputedGrid(3, inp), ComputedGrid(4, inp))

\* what the eight header variables hold before the freads
GarbageHeaders(inp) ==
  { <<inp.nx, inp.dx, inp.xmax, inp.nW, inp.dyn_dW, inp.dyn_Wmax, inp.Theta, inp.rs>>,
    <<inp.nx + 1, 0, 0, inp.nW + 1, 0, 0, 0, 0>> }

CacheInit ==
  /\ pc = "c_start"
  /\ cin \in CacheInputs
  /\ crun = 1
  /\ cgrid = <<NoGrids, NoGrids>>
  /\ cout = <<NoGrids, NoGrids>>
  /\ cfile = NoCacheFile
  /\ ctamper = "none"
  /\ cres = NoRead
  /\ in = InputRecord(0, 0, 0, 0, 0, 0, NO_FILE)
  /\ phi = <<>>
  /\ SSHF = <<>>
  /\ disk = NoDisk
  /\ StlsIdle
  /\ BinIdle
  /\ LaterIdle

\* lines 306-322
ComputeResponses ==
  /\ pc = "c_start"
  /\ cin.dyn_adr_file = NO_FILE
  /\ cgrid' = [cgrid EXCEPT ![crun] = compute_dynamic_grids(cin)]
  /\ pc' = "c_have"
  /\ UNCHANGED <<laterVars, in, phi, SSHF, disk, stlsVars, loaded,
                 cin, crun, cout, cfile, ctamper, cres>>

\* lines 1394-1399
LoadOpenFails ==
  /\ pc = "c_start"
  /\ cin.dyn_adr_file # NO_FILE
  /\ ~cfile.exists
  /\ cres' = [NoRead EXCEPT !.status = "failure"]
  /\ pc' = "c_exit"
  /\ UNCHANGED <<laterVars, in, phi, SSHF, disk, stlsVars, loaded,
                 cin, crun, cgrid, cout, cfile, ctamper>>

\* lines 297-304 and 1381-1437
LoadFromFile ==
  /\ pc = "c_start"
  /\ cin.dyn_adr_file # NO_FILE
  /\ cfile.exists
  /\ \E garbage \in GarbageHeaders(cin) :
       LET r == read_fixed_dynamic_qstls_iet(cfile, cin, garbage)
       IN  /\ cres' = r
           /\ IF r.status = "success"
              THEN /\ cgrid' = [cgrid EXCEPT ![crun] = r.grids]
                   /\ pc' = "c_have"
              ELSE /\ cgrid' = cgrid
                   /\ pc' = "c_exit"
  /\ UNCHANGED <<laterVars, in, phi, SSHF, disk, stlsVars, loaded,
                 cin, crun, cout, cfile, ctamper>>

\* lines 325-347
InterpolateAndWrite ==
  /\ pc = "c_have"
  /\ cout' = [cout EXCEPT ![crun] = Interpolate(cgrid[crun], cin)]
  /\ cfile' = write_fixed_dynamic_qstls_iet(cgrid[crun], cin)
  /\ pc' = "c_done"
  /\ UNCHANGED <<laterVars, in, phi, SSHF, disk, stlsVars, loaded,
                 cin, crun, cgrid, ctamper, cres>>

\* the second run: the program is started again with dyn_adr_file set to
\* the file the first run wrote
rerunKeeps == <<laterVars, in, phi, SSHF, disk, stlsVars, loaded, cgrid, cout, cres>>

RerunSameInput ==
  /\ pc = "c_done"
  /\ crun = 1
  /\ cin' = [cin EXCEPT !.dyn_adr_file = CACHE_FILE]
  /\ cfile' = cfile
  /\ ctamper' = "none"
  /\ crun' = 2
  /\ pc' = "c_start"
  /\ UNCHANGED rerunKeeps

\* the file keeps its first k words and e bytes of the next one
RerunTruncated ==
  /\ pc = "c_done"
  /\ crun = 1
  /\ \E k \in 0..(Len(cfile.words) - 1), e \in 0..(SizeofInt - 1) :
       cfile' = [cfile EXCEPT !.words = SubSeq(cfile.words, 1, k), !.extra = e]
  /\ cin' = [cin EXCEPT !.dyn_adr_file = CACHE_FILE]
  /\ ctamper' = "truncated"
  /\ crun' = 2
  /\ pc' = "c_start"
  /\ UNCHANGED rerunKeeps

JunkWord == [k |-> "junk", v |-> 0]

\* b bytes follow the last array
RerunAppended ==
  /\ pc = "c_done"
  /\ crun = 1
  /\ \E b \in 1..MaxTrail :
       cfile' = [cfile EXCEPT !.words = cfile.words
                                  \o [j \in 1..(b \div SizeofInt) |-> JunkWord],
                              !.extra = b % SizeofInt]
  /\ cin' = [cin EXCEPT !.dyn_adr_file = CACHE_FILE]
  /\ ctamper' = "appended"
  /\ crun' = 2
  /\ pc' = "c_start"
  /\ UNCHANGED rerunKeeps

RerunDeleted ==
  /\ pc = "c_done"
  /\ crun = 1
  /\ cfile' = NoCacheFile
  /\ cin' = [cin EXCEPT !.dyn_adr_file = CACHE_FILE]
  /\ ctamper' = "deleted"
  /\ crun' = 2
  /\ pc' = "c_start"
  /\ UNCHANGED rerunKeeps

\* one of the six reals of the input is changed by d, the grid sizes follow
ChangedInputs(inp, d) ==
  { CacheInput(inp.dx + d, inp.xmax, inp.nW, inp.dyn_dW, inp.dyn_Wmax, inp.Theta, inp.rs, CACHE_FILE),
    CacheInput(inp.dx, inp.xmax + d, inp.nW, inp.dyn_dW, inp.dyn_Wmax, inp.Theta, inp.rs, CACHE_FILE),
    CacheInput(inp.dx, inp.xmax, inp.nW, inp.dyn_dW + d, inp.dyn_Wmax, inp.Theta, inp.rs, CACHE_FILE),
    CacheInput(inp.dx, inp.xmax, inp.nW, inp.dyn_dW, inp.dyn_Wmax + d, inp.Theta, inp.rs, CACHE_FILE),
    CacheInput(inp.dx, inp.xmax, inp.nW, inp.dyn_dW, inp.dyn_Wmax, inp.Theta + d, inp.rs, CACHE_FILE),
    CacheInput(inp.dx, inp.xmax, inp.nW, inp.dyn_dW, inp.dyn_Wmax, inp.Theta, inp.rs + d, CACHE_FILE) }

RerunChangedInput ==
  /\ pc = "c_done"
  /\ crun = 1
  /\ \E d \in {DBL_TOL, 2 * DBL_TOL, CacheStep} : cin' \in ChangedInputs(cin, d)
  /\ cfile' = cfile
  /\ ctamper' = "input"
  /\ crun' = 2
  /\ pc' = "c_start"
  /\ UNCHANGED rerunKeeps

\* the file of another run: a grid size in the header is one larger
RerunOtherGrid ==
  /\ pc = "c_done"
  /\ crun = 1
  /\ cfile' \in { [cfile EXCEPT !.words[1] = IntWord(cin.nx + 1)],
                  [cfile EXCEPT !.words[6] = IntWord(cin.nW + 1)] }
  /\ cin' = [cin EXCEPT !.dyn_adr_file = CACHE_FILE]
  /\ ctamper' = "header"
  /\ crun' = 2
  /\ pc' = "c_start"
  /\ UNCHANGED rerunKeeps

CacheNext ==
  \/ ComputeResponses
  \/ LoadOpenFails
  \/ LoadFromFile
  \/ InterpolateAndWrite
  \/ RerunSameInput
  \/ RerunTruncated
  \/ RerunAppended
  \/ RerunDeleted
  \/ RerunChangedInput
  \/ RerunOtherGrid

SpecCache == CacheInit /\ [][CacheNext]_vars


(***************************************************************************)
(* compute_dynamic_qstls_iet (src/dynamic_qstls_iet.c 20-89): the steps of *)
(* the driver, each recorded in dyn.did when it is taken                   *)
(***************************************************************************)
MaxTheta == 2

\* a safeguard that refuses negative Theta only
SafeguardNegative(run) == run.Theta < 0
\* line 34: if (in.Theta == 0)
Safeguard(run) == run.Theta = 0

DynSay(run, msg) ==
  IF run.verbose THEN [run EXCEPT !.printed = @ \cup {msg}] ELSE run

DynStep(run, what) == [run EXCEPT !.did = Append(@, what)]

\* compute_dynamic_adr_iet with the branch of qstls_iet_static calling the
\* fully dynamic routine
compute_dynamic_adr_iet_static_fd(run) ==
  IF run.dyn_adr_file # NO_FILE
  THEN <<"read_fixed_dynamic_qstls_iet", "write_fixed_dynamic_qstls_iet">>
  ELSE <<"compute_dynamic_idr_iet",
         IF run.qstls_iet_static THEN "compute_dynamic_adr_iet_fd"
         ELSE "compute_dynamic_adr_iet_pd",
         "write_fixed_dynamic_qstls_iet">>

\* compute_dynamic_adr_iet (lines 296-347): the routines that fill the
\* responses on the grid and write the file, in the order of the calls.
\* The responses and the file are what these routines make of the input,
\* and none of them reads qstls_iet_static.
compute_dynamic_adr_iet(run) ==
  IF run.dyn_adr_file # NO_FILE
  THEN <<"read_fixed_dynamic_qstls_iet", "write_fixed_dynamic_qstls_iet">>
  ELSE <<"compute_dynamic_idr_iet",
         IF run.qstls_iet_static THEN "compute_dynamic_adr_iet_pd"
         ELSE "compute_dynamic_adr_iet_pd",
         "write_fixed_dynamic_qstls_iet">>

DynInit ==
  /\ pc = "d_start"
  /\ \E theta \in 0..MaxTheta, file \in {NO_FILE, CACHE_FILE},
        static \in BOOLEAN, vb \in BOOLEAN :
       dyn = DynRun(theta, file, static, vb)
  /\ in = InputRecord(0, 0, 0, 0, 0, 0, NO_FILE)
  /\ phi = <<>>
  /\ SSHF = <<>>
  /\ disk = NoDisk
  /\ StlsIdle
  /\ BinIdle
  /\ CacheIdle
  /\ IdleBut("dyn")

dynKeeps == <<in, phi, SSHF, disk, stlsVars, loaded, cacheVars, ssf, cli, obj, mu, omp, quad>>

\* lines 34-38
DynRefuse ==
  /\ pc = "d_start"
  /\ Safeguard(dyn)
  /\ dyn' = [dyn EXCEPT !.printed = @ \cup {"not yet implemented"},
                        !.status = "failure"]
  /\ pc' = "d_exit"
  /\ UNCHANGED dynKeeps

\* lines 41-49: get_frequency_grid_size, the three allocations and
\* init_fixed_dynamic_stls_arrays
DynAllocate ==
  /\ pc = "d_start"
  /\ ~Safeguard(dyn)
  /\ dyn' = DynStep(DynStep(dyn, "alloc"), "init_fixed")
  /\ pc' = "d_idr"
  /\ UNCHANGED dynKeeps

\* lines 52-54
DynIdealResponse ==
  /\ pc = "d_idr"
  /\ dyn' = DynSay(DynStep(dyn, "compute_dynamic_idr"), "idr")
  /\ pc' = "d_ssf"
  /\ UNCHANGED dynKeeps

\* lines 57-64: get_ssf reads the file of the static structure factor
DynStaticInput ==
  /\ pc = "d_ssf"
  /\ dyn' = DynSay(DynStep(DynStep(dyn, "read ssf file"), "get_bf"), "ssf")
  /\ pc' = "d_adr"
  /\ UNCHANGED dynKeeps

\* lines 67-71: compute_dynamic_adr_iet loads or computes the responses
\* (compute_dynamic_adr_iet_pd whatever qstls_iet_static says) and writes the
\* file of the fixed component
DynAuxiliaryResponse ==
  /\ pc = "d_adr"
  /\ dyn' = [DynSay(
                DynStep(DynStep(dyn, IF dyn.dyn_adr_file # NO_FILE
                                     THEN "read adr file" ELSE "compute adr"),
                        "write adr file"), "adr")
               EXCEPT !.adr = compute_dynamic_adr_iet(dyn)]
  /\ pc' = "d_dsf"
  /\ UNCHANGED dynKeeps

\* lines 74-81
DynOutput ==
  /\ pc = "d_dsf"
  /\ dyn' = [DynSay(DynStep(DynStep(dyn, "compute_dsf"), "write text"), "dsf")
               EXCEPT !.status = "success"]
  /\ pc' = "d_done"
  /\ UNCHANGED dynKeeps

DynNext ==
  \/ DynRefuse
  \/ DynAllocate
  \/ DynIdealResponse
  \/ DynStaticInput
  \/ DynAuxiliaryResponse
  \/ DynOutput

SpecDyn == DynInit /\ [][DynNext]_vars

(***************************************************************************)
(* compute_ssf (src/unnamed/part_001 402-432) and Ssf::get                  *)
(* (src/dynamic_qstls_iet.c 2083-2097) at one wave-vector                  *)
(***************************************************************************)
MaxRs == 1
MaxX == 2
MaxArgs == 1
MaxCalls == 2
MaxBisect == 3
MaxThreads == 2
MaxQuadNx == 4
SsfValues == {0, 1, 2}
PhiValues == {-1, 1, 2}

\* BB of compute_ssf: the sum over ll = from..nl-1, ll counted from 0
RECURSIVE SumBB(_, _, _, _, _)
SumBB(ph, from, xx2, ffG, nl) ==
  IF from > nl THEN Rat(0, 1)
  ELSE LET phixl  == Rat(ph[from], 1)
           BB_tmp == RDiv(RMul(phixl, phixl),
                          RAdd(RMul(RMul(RPi, RLambda), xx2), RMul(ffG, phixl)))
       IN  RAdd(IF from > 1 THEN RMul(BB_tmp, Rat(2, 1)) ELSE BB_tmp,
                SumBB(ph, from + 1, xx2, ffG, nl))

\* an ff without the coupling parameter
ff_without_rs(rs) == RMul(Rat(4, 1), RMul(RLambda, RLambda))
\* line 407: ff = 4*lambda*lambda*in.rs
ff_of(rs) == RMul(RMul(Rat(4, 1), RMul(RLambda, RLambda)), Rat(rs, 1))

\* SS[ii] of compute_ssf
compute_ssf_at(c) ==
  LET ff     == ff_of(c.rs)
      ff3_2T == RDiv(RMul(Rat(3 * c.Theta, 1), ff), Rat(2, 1))
      xx2    == Rat(c.x * c.x, 1)
      oneG   == Rat(1 - c.G, 1)
  IN  IF c.x > 0
      THEN RSub(Rat(c.hf, 1),
                RMul(RMul(ff3_2T, oneG),
                     SumBB(c.phi, 1, xx2, RMul(ff, oneG), Len(c.phi))))
      ELSE Rat(0, 1)

\* fact2 of Ssf::get
RECURSIVE SumFact4(_, _, _, _)
SumFact4(idr, from, fact1_x2_G, nl) ==
  IF from > nl THEN Rat(0, 1)
  ELSE LET fact3 == RAdd(Rat(1, 1), RMul(fact1_x2_G, Rat(idr[from], 1)))
           fact4 == RDiv(Rat(idr[from] * idr[from], 1), fact3)
       IN  RAdd(IF from > 1 THEN RMul(fact4, Rat(2, 1)) ELSE fact4,
                SumFact4(idr, from + 1, fact1_x2_G, nl))

\* the closed formula of Ssf::get, lines 2087-2096
Ssf_get_formula(c) ==
  LET fact1 == RDiv(RMul(RMul(Rat(4, 1), RLambda), Rat(c.rs, 1)), RPi)
      x2    == Rat(c.x * c.x, 1)
      oneG  == Rat(1 - c.G, 1)
      f1x2  == RDiv(fact1, x2)
  IN  RSub(Rat(c.hf, 1),
           RMul(RMul(RMul(RMul(Rat(3, 2), f1x2), Rat(c.Theta, 1)), oneG),
                SumFact4(c.phi, 1, RMul(f1x2, oneG), Len(c.phi))))

\* an Ssf::get without the test of x
Ssf_get_no_x_test(c) ==
  IF c.rs = 0 THEN Rat(c.hf, 1) ELSE Ssf_get_formula(c)

\* Ssf::get
Ssf_get(c) ==
  IF c.rs = 0 THEN Rat(c.hf, 1)
  ELSE IF c.x = 0 THEN Rat(0, 1)
  ELSE Ssf_get_formula(c)

SsfInit ==
  /\ pc = "s_start"
  /\ \E x \in 0..MaxX, rs \in 0..MaxRs, theta \in 1..MaxTheta, G \in SsfValues,
        hf \in SsfValues, nl \in 1..MaxNl :
       \E ph \in [1..nl -> PhiValues] : ssf = SsfCase(x, rs, theta, G, ph, hf)
  /\ in = InputRecord(0, 0, 0, 0, 0, 0, NO_FILE)
  /\ phi = <<>>
  /\ SSHF = <<>>
  /\ disk = NoDisk
  /\ StlsIdle
  /\ BinIdle
  /\ CacheIdle
  /\ IdleBut("ssf")

ssfKeeps == <<in, phi, SSHF, disk, stlsVars, loaded, cacheVars, dyn, cli, obj, mu, omp, quad>>

CallComputeSsf ==
  /\ pc = "s_start"
  /\ ssf' = [ssf EXCEPT !.by_c = compute_ssf_at(ssf)]
  /\ pc' = "s_c"
  /\ UNCHANGED ssfKeeps

CallSsfGet ==
  /\ pc = "s_c"
  /\ ssf' = [ssf EXCEPT !.by_cpp = Ssf_get(ssf)]
  /\ pc' = "s_done"
  /\ UNCHANGED ssfKeeps

SsfNext == CallComputeSsf \/ CallSsfGet

SpecSsf == SsfInit /\ [][SsfNext]_vars

(***************************************************************************)
(* Specification SpecInput: get_input of read_input.c.  The command line   *)
(* is parsed one option at a time by parse_opt, get_grid_size derives nx,  *)
(* check_input accepts or rejects the record, and the solver then builds   *)
(* the wave-vector grid.  Reals are integer multiples of 1/20, the four    *)
(* tolerances and resolutions below 1/20 integer multiples of 1/100000.    *)
(***************************************************************************)
otherIdle ==
  /\ in = InputRecord(0, 0, 0, 0, 0, 0, NO_FILE)
  /\ phi = <<>>
  /\ SSHF = <<>>
  /\ disk = NoDisk
  /\ StlsIdle
  /\ BinIdle
  /\ CacheIdle

otherKeeps == <<in, phi, SSHF, disk, stlsVars, loaded, cacheVars>>

\* the ARGUMENT_..._SHORT keys
ARGUMENT ==
  [THETA |-> 128, RS |-> 129, XMAX |-> 130, DX |-> 131, NL |-> 132,
   ITER |-> 133, MIN_ERR |-> 134, MIX |-> 135, MU_GUESS |-> 136,
   STLS_GUESS |-> 137, THEORY |-> 144, OMP |-> 145, QSTLS_GUESS |-> 146,
   QSTLS_FIXED |-> 147, QSTLS_IET_FIXED |-> 148, QSTLS_IET_STATIC |-> 149,
   DEBUG |-> 150, MODE |-> 151, GUESS_FILES |-> 152, IET_MAPPING |-> 153,
   VS_DRS |-> 256, VS_DT |-> 257, VS_ALPHA |-> 258, VS_THERMO |-> 259,
   VS_MIN_ERR |-> 260, VS_SOLVE_CSR |-> 261, VS_MIX |-> 262,
   DYN_DW |-> 263, DYN_WMAX |-> 264, DYN_XTARGET |-> 265]

Opt(name, key) == [name |-> name, key |-> key]

\* the options table: long name and key of every entry, in table order
options ==
  << Opt("Theta", ARGUMENT.THETA), Opt("rs", ARGUMENT.RS),
     Opt("xmax", ARGUMENT.XMAX), Opt("dx", ARGUMENT.DX),
     Opt("nl", ARGUMENT.NL), Opt("iter", ARGUMENT.ITER),
     Opt("min-err", ARGUMENT.MIN_ERR), Opt("mix", ARGUMENT.MIX),
     Opt("mu-guess", ARGUMENT.MU_GUESS),
     Opt("stls-guess", ARGUMENT.STLS_GUESS),
     Opt("qstls-guess", ARGUMENT.QSTLS_GUESS),
     Opt("qstls-fix", ARGUMENT.QSTLS_FIXED),
     Opt("qstls-iet-fix", ARGUMENT.QSTLS_IET_FIXED),
     Opt("qstls-iet-static", ARGUMENT.QSTLS_IET_FIXED),
     Opt("theory", ARGUMENT.THEORY), Opt("omp", ARGUMENT.OMP),
     Opt("debug-input", ARGUMENT.DEBUG), Opt("mode", ARGUMENT.MODE),
     Opt("guess-files", ARGUMENT.GUESS_FILES),
     Opt("iet-mapping", ARGUMENT.IET_MAPPING),
     Opt("vs-drs", ARGUMENT.VS_DRS), Opt("vs-dt", ARGUMENT.VS_DT),
     Opt("vs-alpha", ARGUMENT.VS_ALPHA),
     Opt("vs-thermo-file", ARGUMENT.VS_THERMO),
     Opt("vs-min-err", ARGUMENT.VS_MIN_ERR), Opt("vs-mix", ARGUMENT.VS_MIX),
     Opt("vs-solve-csr", ARGUMENT.VS_SOLVE_CSR),
     Opt("dyn-dw", ARGUMENT.DYN_DW), Opt("dyn-wmax", ARGUMENT.DYN_WMAX),
     Opt("dyn-xtarget", ARGUMENT.DYN_XTARGET) >>

\* argp looks the long name up in the table and hands its key to parse_opt
KeyOf(name) == options[CHOOSE i \in DOMAIN options : options[i].name = name].key

\* the decimal strings of the command lines, as numerator and denominator
Decimals ==
  [s \in {"-10", "-1.0", "0", "0.05", "0.1", "0.2", "0.5", "1.0", "1.5", "10",
           "1e-5"} |->
     CASE s = "-10" -> <<-10, 1>>
       [] s = "10" -> <<10, 1>>
       [] s = "-1.0" -> <<-1, 1>>
       [] s = "0" -> <<0, 1>>
       [] s = "0.05" -> <<1, 20>>
       [] s = "0.1" -> <<1, 10>>
       [] s = "0.2" -> <<1, 5>>
       [] s = "0.5" -> <<1, 2>>
       [] s = "1.0" -> <<1, 1>>
       [] s = "1.5" -> <<3, 2>>
       [] s = "1e-5" -> <<1, 100000>>]

\* atof: the value of a decimal string in units of 1/per, 0 for a string
\* that does not start with a number
atof(s, per) ==
  IF s \in DOMAIN Decimals THEN (Decimals[s][1] * per) \div Decimals[s][2]
  ELSE 0

\* atoi: the leading integer of the string, 0 when there is none
atoi(s) ==
  CASE s = "-1" -> -1
    [] s = "1" -> 1
    [] s = "2" -> 2
    [] s = "1.0" -> 1
    [] s = "1.5" -> 1
    [] s = "-1.0" -> -1
    [] OTHER -> 0

PerUnit == 20
PerTolerance == 100000

\* strtok(arg, ","): the tokens of a comma separated argument
strtok(arg) ==
  CASE arg = "-10,10" -> <<"-10", "10">>
    [] arg = "0,1.0" -> <<"0", "1.0">>
    [] arg = "file1,file2" -> <<"file1", "file2">>
    [] arg = "" -> <<>>
    [] OTHER -> <<arg>>

\* set_default_parse_opt; nx and dyn_adr_file are not assigned by it
set_default_parse_opt ==
  [stls_guess_file |-> NO_FILE, qstls_guess_file |-> NO_FILE,
   qstls_fixed_file |-> NO_FILE, qstls_iet_fixed_file |-> NO_FILE,
   qstls_iet_static |-> 0, Theta |-> PerUnit, rs |-> PerUnit,
   dx |-> PerUnit \div 10, err_min_iter |-> 1, a_mix |-> PerUnit \div 10,
   mu_lo |-> -10 * PerUnit, mu_hi |-> 10 * PerUnit, xmax |-> 20 * PerUnit,
   nl |-> 128, nIter |-> 1000, theory |-> "STLS", nThreads |-> 1,
   mode |-> "static", guess_file1 |-> NO_FILE, guess_file2 |-> NO_FILE,
   iet_mapping |-> "standard", vs_drs |-> PerTolerance \div 100,
   vs_dt |-> PerTolerance \div 100, vs_alpha |-> PerUnit \div 2,
   vs_thermo_file |-> NO_FILE, vs_err_min_iter |-> PerTolerance \div 1000,
   vs_a_mix |-> PerUnit, vs_solve_csr |-> 1, dyn_dW |-> PerUnit \div 10,
   dyn_Wmax |-> 20 * PerUnit, dyn_xtarget |-> PerUnit,
   dyn_adr_file |-> "uninitialized", nx |-> 0]

Parsed(inp, dbg, failed) == [in |-> inp, debug_input |-> dbg, exit |-> failed]

\* parse_opt: the switch over the key
parse_opt(key, arg, inp, dbg) ==
  LET K == ARGUMENT
      tok == strtok(arg)
  IN CASE key = K.DX -> Parsed([inp EXCEPT !.dx = atof(arg, PerUnit)], dbg, FALSE)
       [] key = K.MIN_ERR ->
            Parsed([inp EXCEPT !.err_min_iter = atof(arg, PerTolerance)], dbg, FALSE)
       [] key = K.STLS_GUESS -> Parsed([inp EXCEPT !.stls_guess_file = arg], dbg, FALSE)
       [] key = K.QSTLS_GUESS -> Parsed([inp EXCEPT !.qstls_guess_file = arg], dbg, FALSE)
       [] key = K.QSTLS_FIXED -> Parsed([inp EXCEPT !.qstls_fixed_file = arg], dbg, FALSE)
       [] key = K.QSTLS_IET_FIXED ->
            Parsed([inp EXCEPT !.qstls_iet_fixed_file = arg], dbg, FALSE)
       [] key = K.QSTLS_IET_STATIC ->
            Parsed([inp EXCEPT !.qstls_iet_static = atoi(arg)], dbg, FALSE)
       [] key = K.MU_GUESS ->
            IF Len(tok) = 0 THEN Parsed(inp, dbg, TRUE)
            ELSE IF Len(tok) = 1
              THEN Parsed([inp EXCEPT !.mu_lo = atof(tok[1], PerUnit)], dbg, TRUE)
              ELSE Parsed([inp EXCEPT !.mu_lo = atof(tok[1], PerUnit),
                                      !.mu_hi = atof(tok[2], PerUnit)], dbg, FALSE)
       [] key = K.ITER -> Parsed([inp EXCEPT !.nIter = atoi(arg)], dbg, FALSE)
       [] key = K.NL -> Parsed([inp EXCEPT !.nl = atoi(arg)], dbg, FALSE)
       [] key = K.MIX -> Parsed([inp EXCEPT !.a_mix = atof(arg, PerUnit)], dbg, FALSE)
       [] key = K.OMP -> Parsed([inp EXCEPT !.nThreads = atoi(arg)], dbg, FALSE)
       [] key = K.RS -> Parsed([inp EXCEPT !.rs = atof(arg, PerUnit)], dbg, FALSE)
       [] key = K.THETA -> Parsed([inp EXCEPT !.Theta = atof(arg, PerUnit)], dbg, FALSE)
       [] key = K.THEORY -> Parsed([inp EXCEPT !.theory = arg], dbg, FALSE)
       [] key = K.XMAX -> Parsed([inp EXCEPT !.xmax = atof(arg, PerUnit)], dbg, FALSE)
       [] key = K.DEBUG -> Parsed(inp, atoi(arg) # 0, FALSE)
       [] key = K.MODE -> Parsed([inp EXCEPT !.mode = arg], dbg, FALSE)
       [] key = K.GUESS_FILES ->
            IF Len(tok) = 0 THEN Parsed(inp, dbg, TRUE)
            ELSE IF Len(tok) = 1
              THEN Parsed([inp EXCEPT !.guess_file1 = tok[1]], dbg, TRUE)
              ELSE Parsed([inp EXCEPT !.guess_file1 = tok[1],
                                      !.guess_file2 = tok[2]], dbg, FALSE)
       [] key = K.IET_MAPPING -> Parsed([inp EXCEPT !.iet_mapping = arg], dbg, FALSE)
       [] key = K.VS_DRS -> Parsed([inp EXCEPT !.vs_drs = atof(arg, PerTolerance)], dbg, FALSE)
       [] key = K.VS_DT -> Parsed([inp EXCEPT !.vs_dt = atof(arg, PerTolerance)], dbg, FALSE)
       [] key = K.VS_ALPHA -> Parsed([inp EXCEPT !.vs_alpha = atof(arg, PerUnit)], dbg, FALSE)
       [] key = K.VS_THERMO -> Parsed([inp EXCEPT !.vs_thermo_file = arg], dbg, FALSE)
       [] key = K.VS_MIN_ERR ->
            Parsed([inp EXCEPT !.vs_err_min_iter = atof(arg, PerTolerance)], dbg, FALSE)
       [] key = K.VS_MIX -> Parsed([inp EXCEPT !.vs_a_mix = atof(arg, PerUnit)], dbg, FALSE)
       [] key = K.VS_SOLVE_CSR -> Parsed([inp EXCEPT !.vs_solve_csr = atoi(arg)], dbg, FALSE)
       [] key = K.DYN_DW -> Parsed([inp EXCEPT !.dyn_dW = atof(arg, PerUnit)], dbg, FALSE)
       [] key = K.DYN_WMAX -> Parsed([inp EXCEPT !.dyn_Wmax = atof(arg, PerUnit)], dbg, FALSE)
       [] key = K.DYN_XTARGET ->
            Parsed([inp EXCEPT !.dyn_xtarget = atof(arg, PerUnit)], dbg, FALSE)
       [] OTHER -> Parsed(inp, dbg, FALSE)

\* the result of (int)floor(v) for a v that is infinite or NaN: undefined
IntOfNonFinite == {-1, 0, 1}

\* get_grid_size: nx = (int)floor(xmax/dx)
get_grid_size(inp) ==
  IF inp.dx = 0 THEN IntOfNonFinite
  ELSE IF inp.dx > 0 THEN {inp.xmax \div inp.dx}
  ELSE {(-inp.xmax) \div (-inp.dx)}

\* check_input without the mixing-parameter test
check_input_no_mix(inp) ==
  \/ inp.dx <= 0
  \/ inp.xmax <= 0
  \/ inp.nIter < 0
  \/ inp.err_min_iter <= 0
  \/ inp.nl <= 0
  \/ inp.nThreads <= 0
  \/ inp.rs < 0
  \/ inp.Theta < 0
  \/ inp.vs_drs <= 0
  \/ inp.vs_dt <= 0
  \/ inp.vs_alpha <= 0
  \/ inp.vs_err_min_iter <= 0
  \/ inp.vs_a_mix <= 0
  \/ inp.dyn_dW <= 0
  \/ inp.dyn_Wmax <= 0
  \/ inp.dyn_xtarget <= 0

\* check_input: TRUE when invalid_input is set and the program exits
check_input(inp) == check_input_no_mix(inp) \/ inp.a_mix <= 0

\* the 0-based cells that wave_vector_grid writes: xx[0], then xx[1..nx-1]
wave_vector_grid_writes(inp) == {0} \cup (1..(inp.nx - 1))

\* the values an option is given on the command lines of the model
ArgValues(name) ==
  CASE name = "xmax" -> {"-1.0", "0", "0.05", "0.1", "0.2"}
    [] name = "dx" -> {"-1.0", "0", "0.1", "0.2"}
    [] name = "mix" -> {"-1.0", "0", "0.5", "1.0", "1.5"}
    [] name \in {"Theta", "rs"} -> {"-1.0", "0", "1.0"}
    [] name = "min-err" -> {"0", "1e-5"}
    [] name \in {"nl", "iter", "omp"} -> {"-1", "0", "2"}
    [] name \in {"qstls-iet-static", "debug-input", "vs-solve-csr"} -> {"0", "1"}
    [] name = "theory" -> {"QSTLS", "XYZ"}
    [] name = "mode" -> {"dynamic", "guess"}
    [] name = "iet-mapping" -> {"sqrt"}
    [] name = "mu-guess" -> {"-10,10", "0,1.0", "1.0"}
    [] name = "guess-files" -> {"file1,file2", "file"}
    [] name \in {"stls-guess", "qstls-guess", "qstls-fix", "qstls-iet-fix",
                 "vs-thermo-file"} -> {"file"}
    [] OTHER -> {"0", "0.5"}

Args == UNION { {<<options[i].name, v>> : v \in ArgValues(options[i].name)} : i \in DOMAIN options }

CommandLines == UNION { [1..n -> Args] : n \in 0..MaxArgs }

InputInit ==
  /\ pc = "get_input"
  /\ \E argv \in CommandLines :
       cli = [argv |-> argv, in |-> set_default_parse_opt, debug_input |-> FALSE,
              status |-> "parsing", last |-> <<>>, before |-> set_default_parse_opt,
              xx |-> <<>>, writes |-> {}]
  /\ otherIdle
  /\ IdleBut("cli")

inputKeeps == <<pc, otherKeeps, dyn, ssf, obj, mu, omp, quad>>

\* argp_parse: the next option of the command line goes through parse_opt
InputParse ==
  /\ cli.status = "parsing"
  /\ cli.argv # <<>>
  /\ LET o == Head(cli.argv)
         r == parse_opt(KeyOf(o[1]), o[2], cli.in, cli.debug_input)
     IN cli' = [cli EXCEPT !.argv = Tail(cli.argv), !.in = r.in,
                           !.debug_input = r.debug_input, !.last = o,
                           !.before = cli.in,
                           !.status = IF r.exit THEN "exit" ELSE "parsing"]
  /\ UNCHANGED inputKeeps

\* get_input after argp_parse: get_grid_size
InputGridSize ==
  /\ cli.status = "parsing"
  /\ cli.argv = <<>>
  /\ \E n \in get_grid_size(cli.in) :
       cli' = [cli EXCEPT !.in.nx = n, !.status = "sized"]
  /\ UNCHANGED inputKeeps

\* get_input: check_input exits on an invalid record
InputCheck ==
  /\ cli.status = "sized"
  /\ cli' = [cli EXCEPT !.status = IF check_input(cli.in) THEN "rejected" ELSE "accepted"]
  /\ UNCHANGED inputKeeps

\* the solver allocates nx cells and calls wave_vector_grid
InputBuildGrid ==
  /\ cli.status = "accepted"
  /\ cli' = [cli EXCEPT !.xx = wave_vector_grid(cli.in),
                        !.writes = wave_vector_grid_writes(cli.in),
                        !.status = "built"]
  /\ UNCHANGED inputKeeps

InputNext == InputParse \/ InputGridSize \/ InputCheck \/ InputBuildGrid

SpecInput == InputInit /\ [][InputNext]_vars

(***************************************************************************)
(* Specification SpecObj: an input object of input.cpp.  The caller makes  *)
(* a sequence of setter calls; a setter that throws leaves the caller with *)
(* the object and the caller goes on.  Rpa::Rpa then builds the grid with  *)
(* Rpa::buildWvGrid.  Reals are integer multiples of 1/20.                 *)
(***************************************************************************)
cTheories == {"RPA", "ESA", "STLS", "STLS-HNC", "STLS-IOI", "STLS-LCT", "VSSTLS"}
qTheories == {"QSTLS", "QSTLS-HNC", "QSTLS-IOI", "QSTLS-LCT", "QVSSTLS"}

Thrown(f) == [f |-> f, thrown |-> TRUE]
Returned(f) == [f |-> f, thrown |-> FALSE]

\* Input::setTheory with the list of the classical theories only
setTheory_classic_only(f, theory_) ==
  LET g == [f EXCEPT !.isClassicTheory = theory_ \in cTheories,
                     !.isQuantumTheory = FALSE]
  IN IF ~g.isClassicTheory /\ ~g.isQuantumTheory THEN Thrown(g)
     ELSE Returned([g EXCEPT !.theory = theory_])

\* Input::setTheory: both flags are assigned before the test that throws
setTheory(f, theory_) ==
  LET g == [f EXCEPT !.isClassicTheory = theory_ \in cTheories,
                     !.isQuantumTheory = theory_ \in qTheories]
  IN IF ~g.isClassicTheory /\ ~g.isQuantumTheory THEN Thrown(g)
     ELSE Returned([g EXCEPT !.theory = theory_])

\* StlsInput::setMixingParameter
setMixingParameter(f, aMix) ==
  IF aMix < 0 \/ aMix > PerUnit THEN Thrown(f)
  ELSE Returned([f EXCEPT !.aMix = aMix])

\* RpaInput::setWaveVectorGridRes
setWaveVectorGridRes(f, dx) ==
  IF dx <= 0 THEN Thrown(f) ELSE Returned([f EXCEPT !.dx = dx])

\* RpaInput::setWaveVectorGridCutoff
setWaveVectorGridCutoff(f, xmax) ==
  IF xmax <= 0 THEN Thrown(f) ELSE Returned([f EXCEPT !.xmax = xmax])

\* while (wvg.back() < xmax) wvg.push_back(wvg.back() + dx): with dx > 0 the
\* loop pushes dx, 2 dx, ... and stops at the first multiple that is >= xmax
PushWhileBelow(wvg, dx, xmax) ==
  LET b == wvg[Len(wvg)]
      n == IF b < xmax THEN (xmax - b + dx - 1) \div dx ELSE 0
  IN wvg \o [k \in 1..n |-> b + k * dx]

\* Rpa::buildWvGrid
buildWvGrid(f) ==
  IF f.xmax < f.dx THEN [wvg |-> <<0>>, thrown |-> TRUE]
  ELSE [wvg |-> PushWhileBelow(<<0>>, f.dx, f.xmax), thrown |-> FALSE]

\* the names given to setTheory: the names of the two lists and three others
TheoryNames == cTheories \cup qTheories \cup {"XYZ", "stls", ""}

\* the setter calls of the model, values in units of 1/20
SetterCalls ==
  ({"setTheory"} \X TheoryNames)
  \cup ({"setMixingParameter"} \X {-2, 0, 10, 20, 30})
  \cup ({"setWaveVectorGridRes"} \X {-2, 0, 2, 4})
  \cup ({"setWaveVectorGridCutoff"} \X {-2, 0, 1, 2, 4, 6})

\* StlsInput after construction with an accepted theory name: aMix(1.0),
\* dx(0.1), xmax(10.0)
StlsInputObject(theory_) ==
  setTheory([theory |-> "", isClassicTheory |-> FALSE, isQuantumTheory |-> FALSE,
             aMix |-> PerUnit, dx |-> PerUnit \div 10, xmax |-> 10 * PerUnit],
            theory_).f

NoCall == <<"none", 0>>

ObjInit ==
  /\ pc = "setters"
  /\ \E theory_ \in {"STLS", "QSTLS"}, n \in 0..MaxCalls :
       \E calls \in [1..n -> SetterCalls] :
         obj = [calls |-> calls, f |-> StlsInputObject(theory_), last |-> NoCall,
                accepted |-> TRUE, wvg |-> <<>>, status |-> "setting"]
  /\ otherIdle
  /\ IdleBut("obj")

objKeeps == <<pc, otherKeeps, dyn, ssf, cli, mu, omp, quad>>

ObjSetTheory ==
  /\ obj.status = "setting"
  /\ obj.calls # <<>>
  /\ Head(obj.calls)[1] = "setTheory"
  /\ LET r == setTheory(obj.f, Head(obj.calls)[2])
     IN obj' = [obj EXCEPT !.calls = Tail(obj.calls), !.f = r.f,
                           !.last = Head(obj.calls), !.accepted = ~r.thrown]
  /\ UNCHANGED objKeeps

ObjSetMixingParameter ==
  /\ obj.status = "setting"
  /\ obj.calls # <<>>
  /\ Head(obj.calls)[1] = "setMixingParameter"
  /\ LET r == setMixingParameter(obj.f, Head(obj.calls)[2])
     IN obj' = [obj EXCEPT !.calls = Tail(obj.calls), !.f = r.f,
                           !.last = Head(obj.calls), !.accepted = ~r.thrown]
  /\ UNCHANGED objKeeps

ObjSetWaveVectorGridRes ==
  /\ obj.status = "setting"
  /\ obj.calls # <<>>
  /\ Head(obj.calls)[1] = "setWaveVectorGridRes"
  /\ LET r == setWaveVectorGridRes(obj.f, Head(obj.calls)[2])
     IN obj' = [obj EXCEPT !.calls = Tail(obj.calls), !.f = r.f,
                           !.last = Head(obj.calls), !.accepted = ~r.thrown]
  /\ UNCHANGED objKeeps

ObjSetWaveVectorGridCutoff ==
  /\ obj.status = "setting"
  /\ obj.calls # <<>>
  /\ Head(obj.calls)[1] = "setWaveVectorGridCutoff"
  /\ LET r == setWaveVectorGridCutoff(obj.f, Head(obj.calls)[2])
     IN obj' = [obj EXCEPT !.calls = Tail(obj.calls), !.f = r.f,
                           !.last = Head(obj.calls), !.accepted = ~r.thrown]
  /\ UNCHANGED objKeeps

\* Rpa::Rpa: the constructor calls buildWvGrid
ObjBuildWvGrid ==
  /\ obj.status = "setting"
  /\ obj.calls = <<>>
  /\ LET r == buildWvGrid(obj.f)
     IN obj' = [obj EXCEPT !.wvg = r.wvg,
                           !.status = IF r.thrown THEN "thrown" ELSE "built"]
  /\ UNCHANGED objKeeps

ObjNext ==
  \/ ObjSetTheory
  \/ ObjSetMixingParameter
  \/ ObjSetWaveVectorGridRes
  \/ ObjSetWaveVectorGridCutoff
  \/ ObjBuildWvGrid

SpecObj == ObjInit /\ [][ObjNext]_vars

(***************************************************************************)
(* Specification SpecMu: the bisection loop of compute_mu.  The bracket is *)
(* halved by every gsl_root_fsolver_iterate; `need` is the number of       *)
(* halvings after which gsl_root_test_interval returns GSL_SUCCESS for the *)
(* Theta of the call.  `int status, iter;` has no initialiser, so the      *)
(* first value of iter is whatever the stack holds.                        *)
(***************************************************************************)
max_iter == 100

\* the values an uninitialised int is given in the model
UninitInt == (-2..2) \cup ((max_iter - 2)..(max_iter + 2))

\* gsl_root_test_interval after `done` halvings of the bracket
gsl_root_test_interval(done, need) == IF done >= need THEN "GSL_SUCCESS" ELSE "GSL_CONTINUE"

\* double mu_lo = -10.0; double mu_hi = 10.0; the locals of compute_mu
mu_lo == -10 * PerUnit
mu_hi == 10 * PerUnit

\* the argument strings of --mu-guess that the callers of compute_mu pass
MuGuesses == {"0,1.0", "-10,10", "0.5,10"}

\* the input records of the calls: the defaults, or --mu-guess lo,hi parsed
MuInputs ==
  {set_default_parse_opt}
    \cup { parse_opt(ARGUMENT.MU_GUESS, g, set_default_parse_opt, FALSE).in : g \in MuGuesses }

MuInit ==
  /\ pc = "compute_mu"
  /\ \E need \in 1..MaxBisect, garbage \in UninitInt, inp \in MuInputs :
       mu = [need |-> need, iter |-> garbage, done |-> 0,
             in |-> inp, lower |-> mu_lo, upper |-> mu_hi, bracket |-> <<>>,
             solver_status |-> "GSL_CONTINUE", at |-> "set"]
  /\ otherIdle
  /\ IdleBut("mu")

muKeeps == <<pc, otherKeeps, dyn, ssf, cli, obj, omp, quad>>

\* gsl_root_fsolver_alloc, gsl_root_fsolver_set
MuSolverSet ==
  /\ mu.at = "set"
  /\ mu' = [mu EXCEPT !.bracket = <<mu.lower, mu.upper>>, !.at = "iterate"]
  /\ UNCHANGED muKeeps

\* loop body up to the interval test
MuIterate ==
  /\ mu.at = "iterate"
  /\ mu' = [mu EXCEPT !.done = mu.done + 1,
                      !.solver_status = gsl_root_test_interval(mu.done + 1, mu.need),
                      !.at = "count"]
  /\ UNCHANGED muKeeps

\* iter++ and the loop condition
MuCount ==
  /\ mu.at = "count"
  /\ mu' = [mu EXCEPT !.iter = mu.iter + 1,
                      !.at = IF mu.solver_status = "GSL_CONTINUE" /\ mu.iter + 1 < max_iter
                             THEN "iterate" ELSE "free"]
  /\ UNCHANGED muKeeps

\* gsl_root_fsolver_free, return mu
MuReturn ==
  /\ mu.at = "free"
  /\ mu' = [mu EXCEPT !.at = "returned"]
  /\ UNCHANGED muKeeps

MuNext == MuSolverSet \/ MuIterate \/ MuCount \/ MuReturn

SpecMu == MuInit /\ [][MuNext]_vars

(***************************************************************************)
(* Specification SpecOmp: one call of compute_dynamic_adr_iet_re_lev1      *)
(* (region "re") or of compute_dynamic_adr_iet_im_lev1 (region "im"),      *)
(* one parallel phase.  In region "im" the threads go straight into the    *)
(* loop and write psi_im only.  In region "re" every thread of the team tests psi_re_fixed[0]     *)
(* against INFINITY and then runs the rows ii that the `omp for` gives     *)
(* it; there is no barrier between the test and the loop.  A row stands    *)
(* for its kernel slots (ii, jj, kk), and cell_row is the row whose slot    *)
(* holds cell 0 of psi_re_fixed.  On the first call cell 0 is INFINITY and *)
(* no slot is written, on a later call every slot is written.              *)
(***************************************************************************)
Team(n) == 1..n

\* the cells of the shared arrays that one pass of the loop over ii writes,
\* as pairs <<array, row>>, with every row given the first index
lev1_writes_first_row(region, ii, compute_fixed) ==
  IF region = "im" THEN {<<"psi_im", 1>>}
  ELSE {<<"psi_re_new", 1>>}
       \cup (IF compute_fixed THEN {<<"psi_re_fixed", ii>>} ELSE {})

\* the cells of the shared arrays that one pass of the loop over ii writes:
\* psi_re_new[idx2(ii,jj,nx)] and, with compute_fixed, the kernel slots of
\* ii in the real part; psi_im[idx2(ii,jj,nx)] in the imaginary part
lev1_writes(region, ii, compute_fixed) ==
  IF region = "im" THEN {<<"psi_im", ii>>}
  ELSE {<<"psi_re_new", ii>>}
       \cup (IF compute_fixed THEN {<<"psi_re_fixed", ii>>} ELSE {})

\* the writes of thread t in one pass, as entries of the log of the region
Logged(t, cells) == { [t |-> t, arr |-> c[1], row |-> c[2]] : c \in cells }

ThreadStart == [at |-> "test", compute_fixed |-> TRUE, observed |-> FALSE, done |-> {}]

OmpInit ==
  /\ pc = "parallel"
  /\ \E nx \in 1..MaxCNx, nThreads \in 1..MaxThreads, first_call \in BOOLEAN :
       \E owner \in [1..nx -> Team(nThreads)], cell_row \in 1..nx, region \in {"re", "im"} :
         omp = [nx |-> nx, nThreads |-> nThreads, owner |-> owner,
                region |-> region,
                cell_row |-> cell_row,
                cell0 |-> IF first_call THEN "INFINITY" ELSE "kernel",
                written |-> IF first_call THEN {} ELSE 1..nx,
                th |-> [t \in Team(nThreads) |->
                          IF region = "im" THEN [ThreadStart EXCEPT !.at = "loop"]
                          ELSE ThreadStart],
                read0 |-> {}, wrote0 |-> 0, unwritten_reads |-> {},
                wrote |-> {},
                phase |-> "running"]
  /\ otherIdle
  /\ IdleBut("omp")

ompKeeps == <<pc, otherKeeps, dyn, ssf, cli, obj, mu, quad>>

\* the rows of thread t that it has not run yet
RowsLeft(t) == { ii \in 1..omp.nx : omp.owner[ii] = t /\ ii \notin omp.th[t].done }

\* if (psi_re_fixed[0] != INFINITY) compute_fixed = false;
OmpTestSentinel ==
  /\ omp.phase = "running"
  /\ \E t \in Team(omp.nThreads) :
       /\ omp.th[t].at = "test"
       /\ omp' = [omp EXCEPT !.th[t].at = "loop",
                             !.th[t].compute_fixed = (omp.cell0 = "INFINITY"),
                             !.th[t].observed = (omp.wrote0 \notin {0, t}),
                             !.read0 = omp.read0 \cup {t}]
  /\ UNCHANGED ompKeeps

\* loop body with compute_fixed: compute_dynamic_adr_iet_re_lev2 and
\* write_dynamic_adr_iet_fixed for every jj of the row
OmpComputeRow ==
  /\ omp.phase = "running"
  /\ omp.region = "re"
  /\ \E t \in Team(omp.nThreads) :
       /\ omp.th[t].at = "loop"
       /\ omp.th[t].compute_fixed
       /\ \E ii \in RowsLeft(t) :
            omp' = [omp EXCEPT !.th[t].done = omp.th[t].done \cup {ii},
                               !.written = omp.written \cup {ii},
                               !.wrote = omp.wrote
                                           \cup Logged(t, lev1_writes("re", ii, TRUE)),
                               !.cell0 = IF ii = omp.cell_row THEN "kernel" ELSE omp.cell0,
                               !.wrote0 = IF ii = omp.cell_row THEN t ELSE omp.wrote0]
  /\ UNCHANGED ompKeeps

\* loop body without compute_fixed: read_dynamic_adr_iet_fixed for every jj
OmpReadRow ==
  /\ omp.phase = "running"
  /\ omp.region = "re"
  /\ \E t \in Team(omp.nThreads) :
       /\ omp.th[t].at = "loop"
       /\ ~omp.th[t].compute_fixed
       /\ \E ii \in RowsLeft(t) :
            omp' = [omp EXCEPT !.th[t].done = omp.th[t].done \cup {ii},
                               !.wrote = omp.wrote
                                           \cup Logged(t, lev1_writes("re", ii, FALSE)),
                               !.unwritten_reads =
                                  IF ii \in omp.written THEN omp.unwritten_reads
                                  ELSE omp.unwritten_reads \cup {ii}]
  /\ UNCHANGED ompKeeps

\* loop body of compute_dynamic_adr_iet_im_lev1: psi_im of the row
OmpImRow ==
  /\ omp.phase = "running"
  /\ omp.region = "im"
  /\ \E t \in Team(omp.nThreads) :
       /\ omp.th[t].at = "loop"
       /\ \E ii \in RowsLeft(t) :
            omp' = [omp EXCEPT !.th[t].done = omp.th[t].done \cup {ii},
                               !.wrote = omp.wrote
                                           \cup Logged(t, lev1_writes("im", ii, FALSE))]
  /\ UNCHANGED ompKeeps

\* a thread with no row left waits at the barrier that ends the omp for
OmpLoopEnd ==
  /\ omp.phase = "running"
  /\ \E t \in Team(omp.nThreads) :
       /\ omp.th[t].at = "loop"
       /\ RowsLeft(t) = {}
       /\ omp' = [omp EXCEPT !.th[t].at = "barrier"]
  /\ UNCHANGED ompKeeps

\* end of the parallel region
OmpJoin ==
  /\ omp.phase = "running"
  /\ \A t \in Team(omp.nThreads) : omp.th[t].at = "barrier"
  /\ omp' = [omp EXCEPT !.phase = "joined"]
  /\ UNCHANGED ompKeeps

OmpNext ==
  \/ OmpTestSentinel
  \/ OmpComputeRow
  \/ OmpReadRow
  \/ OmpImRow
  \/ OmpLoopEnd
  \/ OmpJoin

SpecOmp == OmpInit /\ [][OmpNext]_vars

(***************************************************************************)
(* Specification SpecQuad: the loop over w of                              *)
(* compute_dynamic_adr_iet_re_lev2 and compute_dynamic_adr_iet_im_lev2.    *)
(* ww is the grid of wave_vector_grid, xx one of its points (the caller    *)
(* passes xx[ii]).  The splines of the callers are cubic and are allocated *)
(* for nx points before the loop is reached, so nx >= 3.  Wave-vectors are *)
(* integer multiples of dx/2 with dx even.                                 *)
(***************************************************************************)
\* u_min = |w - x| and u_max = w + x without the test against w_max
lev2_limits_unclamped(w, x, w_max) == [u_min |-> Abs(w - x), u_max |-> w + x]

\* u_min = ww[ii] - xx, negated when < 0; u_max = ww[ii] + xx, w_max when larger
lev2_limits(w, x, w_max) ==
  [u_min |-> IF w - x < 0 THEN -(w - x) ELSE w - x,
   u_max |-> IF w + x > w_max THEN w_max ELSE w + x]

QuadInit ==
  /\ pc = "lev2"
  /\ \E nx \in 3..MaxQuadNx, d \in {GridDx, 2 * GridDx}, part \in {"re", "im"} :
       \E xi \in 1..nx :
         LET g == wave_vector_grid([dx |-> d, nx |-> nx])
         IN quad = [part |-> part, nx |-> nx, dx |-> d, ww |-> g, xx |-> g[xi],
                    w_max |-> g[nx - 1], ii |-> 0, limits |-> <<>>]
  /\ otherIdle
  /\ IdleBut("quad")

quadKeeps == <<pc, otherKeeps, dyn, ssf, cli, obj, mu, omp>>

\* one pass of the loop over w of compute_dynamic_adr_iet_re_lev2
QuadReLimits ==
  /\ quad.part = "re"
  /\ quad.ii < quad.nx
  /\ quad' = [quad EXCEPT !.ii = quad.ii + 1,
                          !.limits = Append(quad.limits,
                                            lev2_limits(quad.ww[quad.ii + 1], quad.xx,
                                                        quad.w_max))]
  /\ UNCHANGED quadKeeps

\* one pass of the loop over w of compute_dynamic_adr_iet_im_lev2
QuadImLimits ==
  /\ quad.part = "im"
  /\ quad.ii < quad.nx
  /\ quad' = [quad EXCEPT !.ii = quad.ii + 1,
                          !.limits = Append(quad.limits,
                                            lev2_limits(quad.ww[quad.ii + 1], quad.xx,
                                                        quad.w_max))]
  /\ UNCHANGED quadKeeps

QuadNext == QuadReLimits \/ QuadImLimits

SpecQuad == QuadInit /\ [][QuadNext]_vars

ErrMin == Fin(in.err_min_iter)

\* C1: the loop performs at most nIter closure updates and, once it has
\* stopped, either the last residual is <= errMin or the counter is nIter.
C1_StopsOnlyConvergedOrMaxIter ==
  /\ n_slfc <= in.nIter
  /\ pc = "done" => (FLe(iter_err, ErrMin) \/ iter_counter = in.nIter)

\* the part of C1 the code keeps: never more than nIter closure updates,
\* and the loop is left only when its condition is false
C1_AtMostNIterUpdates ==
  /\ n_slfc <= in.nIter
  /\ n_slfc = iter_counter + (IF pc \in {"diag"} THEN 1 ELSE 0)
  /\ pc = "done" => (~FGt(iter_err, ErrMin) \/ iter_counter = in.nIter)

\* C2: a run that reached nIter with the residual still above errMin is
\* surfaced as NOT_CONVERGED, and its results are written.
C2_NotConvergedSurfaced ==
  (pc = "done" /\ iter_counter = in.nIter /\ FGt(iter_err, ErrMin))
    => ("NOT_CONVERGED" \in stdout /\ text_out.written)

\* C3: a run whose residual is NaN or +infinity at a convergence check ends
\* Failed: with an error code, and without writing results as a normal run.
C3_SentinelClassifiedFailed ==
  (pc = "done" /\ IsSentinel(iter_err))
    => (exit_code = "failure" /\ ~text_out.written)

\* C4: on both paths G = 0, G_new = 1 and S = ssf(G = 0) before the first
\* step, and every iteration is compute_slfc from the current S, residual
\* against the un-mixed G, mix, compute_ssf from the mixed G, in this order.
C4_StrictOrder ==
  /\ (pc = "loop" /\ iter_counter = 0) =>
        /\ GG = Arr("0.0", 0, in.nx, FALSE)
        /\ GG_new = Arr("1.0", 0, in.nx, FALSE)
        /\ SS.op = "ssf" /\ SS.ver = 0
  /\ pc = "diag" =>
        /\ GG_new.ver = iter_counter
        /\ SS.op = "ssf" /\ SS.ver = iter_counter
        /\ GG.ver = iter_counter
  /\ pc = "ssf" =>
        /\ err_from = [new |-> iter_counter - 1, old |-> iter_counter - 1]
        /\ GG.op = "mix" /\ GG.ver = iter_counter
        /\ GG_new.ver = iter_counter - 1
        /\ SS.ver = iter_counter - 1
  /\ (pc \in {"loop", "done"} /\ iter_counter >= 1) =>
        /\ err_from = [new |-> iter_counter - 1, old |-> iter_counter - 1]
        /\ GG.op = "mix" /\ GG.ver = iter_counter
        /\ GG_new.ver = iter_counter - 1
        /\ SS.op = "ssf" /\ SS.ver = iter_counter

C4_Witness == pc = "loop" /\ iter_counter = 2 /\ ~init_flag /\ in.nx = 2

\* C5: read_fixed_dynamic_qstls_iet exits with failure whenever a header
\* field of the file differs from the input (nx, nW exactly; dx, xmax, dW,
\* Wmax, Theta, rs by more than DBL_TOL), and it does so before reading the
\* body: the body is only read with nx_file = in.nx and nW_file = in.nW and
\* no fread goes past the in.nx*in.nW cells of a buffer.
C5_HeaderDiffers ==
  \/ cres.hdr.nx # cin.nx
  \/ cres.hdr.nW # cin.nW
  \/ Abs(cres.hdr.dx - cin.dx) > DBL_TOL
  \/ Abs(cres.hdr.xmax - cin.xmax) > DBL_TOL
  \/ Abs(cres.hdr.dW - cin.dyn_dW) > DBL_TOL
  \/ Abs(cres.hdr.Wmax - cin.dyn_Wmax) > DBL_TOL
  \/ Abs(cres.hdr.Theta - cin.Theta) > DBL_TOL
  \/ Abs(cres.hdr.rs - cin.rs) > DBL_TOL

C5_MismatchRejectedBeforeBody ==
  (crun = 2 /\ cres.status \in {"success", "failure"} /\ cfile.exists) =>
    /\ C5_HeaderDiffers => (cres.status = "failure" /\ ~cres.body_read)
    /\ cres.body_read =>
         (cres.nx_file = cin.nx /\ cres.nW_file = cin.nW /\ ~cres.overflow)

C5_Witness ==
  /\ crun = 2
  /\ pc = "c_exit"
  /\ ctamper = "header"
  /\ cres.hdr.it_read = HeaderItems
  /\ cres.nx_file * cres.nW_file > cin.nx * cin.nW
  /\ ~cres.body_read

\* C6: a file is accepted only if it holds exactly the 8 header items and
\* the 4*nx*nW doubles and not one byte more.
C6_OnlyExactFileAccepted ==
  (crun = 2 /\ pc = "c_have" /\ cres.status = "success") =>
    /\ Len(cfile.words) = HeaderWords + 2 * 4 * cin.nx * cin.nW
    /\ cfile.extra = 0

\* C7: write_fixed_dynamic_qstls_iet writes nx, dx, xmax, nW, dW, Wmax,
\* Theta, rs and then phi_re, phi_im, psi_re, psi_im; a second run with the
\* same input that loads the untouched file has the same four arrays,
\* element for element, and the same responses at the target wave-vector.
C7_Layout(f, g, inp) ==
  LET n == inp.nx * inp.nW
      At(a, k) == HeaderWords + 2 * (a - 1) * n + 2 * k - 1
  IN  /\ SubSeq(f.words, 1, HeaderWords) =
           <<IntWord(inp.nx)>> \o DoubleWords(inp.dx) \o DoubleWords(inp.xmax)
           \o <<IntWord(inp.nW)>> \o DoubleWords(inp.dyn_dW)
           \o DoubleWords(inp.dyn_Wmax) \o DoubleWords(inp.Theta)
           \o DoubleWords(inp.rs)
      /\ Len(f.words) = HeaderWords + 8 * n
      /\ \A k \in 1..n :
           /\ SubSeq(f.words, At(1, k), At(1, k) + 1) = DoubleWords(g.phi_re[k])
           /\ SubSeq(f.words, At(2, k), At(2, k) + 1) = DoubleWords(g.phi_im[k])
           /\ SubSeq(f.words, At(3, k), At(3, k) + 1) = DoubleWords(g.psi_re[k])
           /\ SubSeq(f.words, At(4, k), At(4, k) + 1) = DoubleWords(g.psi_im[k])

C7_RoundTrip ==
  /\ (pc = "c_done" /\ crun = 1) => C7_Layout(cfile, cgrid[1], cin)
  /\ (crun = 2 /\ ctamper = "none" /\ pc # "c_start") =>
       /\ cres.status = "success"
       /\ cgrid[2] = cgrid[1]
       /\ pc = "c_done" => (cout[2] = cout[1] /\ C7_Layout(cfile, cgrid[1], cin))

C7_Witness ==
  /\ crun = 2
  /\ ctamper = "none"
  /\ pc = "c_done"
  /\ cin.nx = 2
  /\ cin.nW = 2
  /\ cgrid[2] = compute_dynamic_grids(cin)

\* C8: read_bin applied to the file written by write_bin gives back phi and
\* SSHF element for element, with the nx and nl that were written.
C8_RestartRoundTrip ==
  pc = "bin_read" =>
    /\ loaded.phi = phi
    /\ loaded.SSHF = SSHF
    /\ loaded.in.nx = in.nx
    /\ loaded.in.nl = in.nl

C8_Witness ==
  /\ pc = "bin_read"
  /\ in.nx = 2
  /\ in.nl = 2
  /\ Len(loaded.phi) = 4
  /\ \E k \in 1..4 : loaded.phi[k] # loaded.SSHF[1]

\* C9 as amended: phi(i,l) is stored with the Matsubara index major, at
\* offset l*nx + i, in memory and in the binary restart file.
C9_MatsubaraMajor ==
  (init_flag /\ pc \in {"guess", "loop", "diag", "ssf", "done"}) =>
    \A i \in 0..(in.nx - 1) : \A l \in 0..(in.nl - 1) :
      /\ Cell(phi, l * in.nx + i) = phil(i, l, in.Theta)
      /\ pc = "done" => Cell(disk.body, l * in.nx + i) = phil(i, l, in.Theta)

C9_Witness ==
  init_flag /\ pc = "done" /\ in.nx = 2 /\ in.nl = 2 /\ Intact(disk)

\* C9 as stated: phi(i,l) is stored with the wave-vector index major, at
\* offset i*nl + l.
C9_WaveVectorMajor ==
  (init_flag /\ pc \in {"guess", "loop", "diag", "ssf", "done"}) =>
    \A i \in 0..(in.nx - 1) : \A l \in 0..(in.nl - 1) :
      /\ Cell(phi, i * in.nl + l) = phil(i, l, in.Theta)
      /\ pc = "done" => Cell(disk.body, i * in.nl + l) = phil(i, l, in.Theta)

\* C10: with a restart file that is cut short the run ends in a fatal error
\* and does not go on to the iterations.
C10_TruncatedRestartFatal ==
  (in.phi_file # NO_FILE /\ pc # "start" /\ ~Intact(disk))
    => (pc = "exit" /\ exit_code = "failure")

\* C11: with Theta = 0 compute_dynamic_qstls_iet ends with a failure status
\* before it has allocated, computed, read or written anything.
C11_ZeroThetaRefused ==
  (dyn.Theta = 0 /\ pc \in {"d_exit", "d_idr", "d_ssf", "d_adr", "d_dsf", "d_done"}) =>
    (pc = "d_exit" /\ dyn.status = "failure" /\ dyn.did = <<>>)

C11_Witness ==
  /\ pc = "d_exit"
  /\ dyn.Theta = 0
  /\ dyn.dyn_adr_file # NO_FILE
  /\ dyn.status = "failure"

\* C12: at rs = 0 the static structure factor is the Hartree-Fock one, for
\* every finite G and phi: Ssf::get returns S_HF at every wave-vector, and
\* compute_ssf gives S_HF at every point of its grid (x >= dx/2 > 0).
C12_IdealLimit ==
  (pc = "s_done" /\ ssf.rs = 0) =>
    /\ REq(ssf.by_cpp, Rat(ssf.hf, 1))
    /\ ssf.x > 0 => REq(ssf.by_c, Rat(ssf.hf, 1))

C12_Witness ==
  /\ pc = "s_done"
  /\ ssf.rs = 0
  /\ ssf.x > 0
  /\ ssf.G # 1
  /\ ssf.hf = 2
  /\ Len(ssf.phi) = 2
  /\ REq(ssf.by_c, ssf.by_cpp)

\* C13 as amended: at x = 0 compute_ssf gives 0 for every rs, Theta, G, phi
\* and S_HF; Ssf::get gives 0 when rs > 0 and S_HF when rs = 0.
C13_ZeroAtOriginUnlessIdeal ==
  (pc = "s_done" /\ ssf.x = 0) =>
    /\ REq(ssf.by_c, Rat(0, 1))
    /\ ssf.rs > 0 => REq(ssf.by_cpp, Rat(0, 1))
    /\ ssf.rs = 0 => REq(ssf.by_cpp, Rat(ssf.hf, 1))

C13_Witness ==
  /\ pc = "s_done"
  /\ ssf.x = 0
  /\ ssf.rs = 0
  /\ ssf.hf = 2
  /\ ssf.by_cpp = Rat(2, 1)
  /\ ssf.by_c = Rat(0, 1)

\* C13 as stated: at x = 0 both compute_ssf and Ssf::get give 0, for every
\* rs >= 0.
C13_ZeroAtOrigin ==
  (pc = "s_done" /\ ssf.x = 0) =>
    (REq(ssf.by_c, Rat(0, 1)) /\ REq(ssf.by_cpp, Rat(0, 1)))

\* C14: every wave-vector grid that is built is cell-centered: it has
\* floor(xmax/dx) points, starts at dx/2, has spacing dx and is positive.
\* Stated for the grid of Rpa::buildWvGrid.
C14_CellCentered ==
  obj.status = "built" =>
    /\ Len(obj.wvg) = obj.f.xmax \div obj.f.dx
    /\ 2 * obj.wvg[1] = obj.f.dx
    /\ \A i \in 1..(Len(obj.wvg) - 1) : obj.wvg[i + 1] - obj.wvg[i] = obj.f.dx
    /\ \A i \in 1..Len(obj.wvg) : obj.wvg[i] > 0

\* C15: an input record that the validation accepts has dx > 0 and
\* xmax > dx, and so has every record a grid is built from.
C15_GridPreconditionEnforced ==
  cli.status \in {"accepted", "built"} =>
    cli.in.dx > 0 /\ cli.in.xmax > cli.in.dx

\* C16: compute_mu starts its iteration counter at 0, so that the counter is
\* the number of solver iterations made, makes at most 100 of them, and
\* leaves the loop only with the tolerance met or the counter at 100.
C16_CounterFromZero ==
  /\ mu.at = "set" => mu.iter = 0
  /\ mu.at \in {"iterate", "free", "returned"} => mu.iter = mu.done
  /\ mu.done <= max_iter
  /\ mu.at \in {"free", "returned"} =>
       mu.solver_status = "GSL_SUCCESS" \/ mu.done = max_iter

\* the input-record fields that the documentation of an option names
DocumentedFields(name) ==
  CASE name = "Theta" -> {"Theta"}
    [] name = "rs" -> {"rs"}
    [] name = "xmax" -> {"xmax"}
    [] name = "dx" -> {"dx"}
    [] name = "nl" -> {"nl"}
    [] name = "iter" -> {"nIter"}
    [] name = "min-err" -> {"err_min_iter"}
    [] name = "mix" -> {"a_mix"}
    [] name = "mu-guess" -> {"mu_lo", "mu_hi"}
    [] name = "stls-guess" -> {"stls_guess_file"}
    [] name = "qstls-guess" -> {"qstls_guess_file"}
    [] name = "qstls-fix" -> {"qstls_fixed_file"}
    [] name = "qstls-iet-fix" -> {"qstls_iet_fixed_file"}
    [] name = "qstls-iet-static" -> {"qstls_iet_static"}
    [] name = "theory" -> {"theory"}
    [] name = "omp" -> {"nThreads"}
    [] name = "debug-input" -> {}
    [] name = "mode" -> {"mode"}
    [] name = "guess-files" -> {"guess_file1", "guess_file2"}
    [] name = "iet-mapping" -> {"iet_mapping"}
    [] name = "vs-drs" -> {"vs_drs"}
    [] name = "vs-dt" -> {"vs_dt"}
    [] name = "vs-alpha" -> {"vs_alpha"}
    [] name = "vs-thermo-file" -> {"vs_thermo_file"}
    [] name = "vs-min-err" -> {"vs_err_min_iter"}
    [] name = "vs-mix" -> {"vs_a_mix"}
    [] name = "vs-solve-csr" -> {"vs_solve_csr"}
    [] name = "dyn-dw" -> {"dyn_dW"}
    [] name = "dyn-wmax" -> {"dyn_Wmax"}
    [] name = "dyn-xtarget" -> {"dyn_xtarget"}
    [] OTHER -> {}

\* the fields that differ from the defaults after parsing the option alone
FieldsSetBy(name) ==
  { f \in DOMAIN set_default_parse_opt :
      \E v \in ArgValues(name) :
        parse_opt(KeyOf(name), v, set_default_parse_opt, FALSE).in[f]
          # set_default_parse_opt[f] }

\* C17: the options have pairwise different keys, an option that was parsed
\* changed no field but the ones it is documented for (--qstls-iet-static
\* the field qstls_iet_static), and every field of the input record except
\* the derived nx is set by some option.
C17_OptionsOneToOne ==
  /\ \A i, j \in DOMAIN options : i # j => options[i].key # options[j].key
  /\ (cli.status = "parsing" /\ cli.last # <<>>) =>
       /\ \A f \in DOMAIN cli.in :
            cli.in[f] # cli.before[f] => f \in DocumentedFields(cli.last[1])
       /\ cli.last[1] = "qstls-iet-static" => cli.in.qstls_iet_static = atoi(cli.last[2])
  /\ \A f \in DOMAIN set_default_parse_opt \ {"nx"} :
       \E i \in DOMAIN options : f \in FieldsSetBy(options[i].name)

\* C18: the mixing parameter of an accepted input record lies in (0,1].
C18_MixingInUnitInterval ==
  cli.status \in {"accepted", "built"} =>
    0 < cli.in.a_mix /\ cli.in.a_mix <= PerUnit

\* C19: a call of the theory selector is accepted exactly when the name is
\* one of the 12 theories, and after an accepted call exactly one of
\* isClassicTheory and isQuantumTheory is true and the name is stored.
C19_TheorySelector ==
  obj.last[1] = "setTheory" =>
    /\ obj.accepted <=>
         obj.last[2] \in {"RPA", "ESA", "STLS", "STLS-HNC", "STLS-IOI", "STLS-LCT",
                         "VSSTLS", "QSTLS", "QSTLS-HNC", "QSTLS-IOI", "QSTLS-LCT",
                         "QVSSTLS"}
    /\ obj.accepted =>
         /\ obj.f.isClassicTheory # obj.f.isQuantumTheory
         /\ obj.f.theory = obj.last[2]

\* the last setter call was setTheory with the name of a quantum theory and
\* was accepted
C19_Witness ==
  /\ obj.last[1] = "setTheory"
  /\ obj.accepted
  /\ obj.last[2] \in qTheories
  /\ obj.f.isQuantumTheory
  /\ ~obj.f.isClassicTheory
  /\ obj.status = "built"

\* C20: in the parallel phase no thread reads a cell of psi_re_fixed that
\* another thread writes in the phase: no thread tests cell 0 in a phase in
\* which another thread writes it, no test of cell 0 sees the write of
\* another thread, and no thread reads a kernel slot that was not written.
C20_NoCrossThreadRead ==
  /\ \A t \in omp.read0 : omp.wrote0 \in {0, t}
  /\ \A t \in Team(omp.nThreads) : ~omp.th[t].observed
  /\ omp.unwritten_reads = {}

\* C27: an input record that get_input returns has nx >= 2, and get_grid_size
\* is never given a dx that is not > 0.
C27_GridSizeAtLeastTwo ==
  /\ cli.status \in {"accepted", "built"} => cli.in.nx >= 2
  /\ cli.status \in {"sized", "accepted", "rejected", "built"} => cli.in.dx > 0

\* C28: a setter call that is rejected leaves every field of the object as
\* it was before the call.
C28_RejectedLeavesObject ==
  [][(Len(obj'.calls) < Len(obj.calls) /\ ~obj'.accepted) => obj'.f = obj.f]_vars

\* C25: every upper limit u_max of the middle integral, and every lower
\* limit, is at most the last point of the grid, so that no spline is
\* evaluated beyond the end of its table.
C25_UpperLimitClamped ==
  \A k \in 1..Len(quad.limits) :
    /\ quad.limits[k].u_max <= quad.ww[quad.nx]
    /\ quad.limits[k].u_max <= quad.ww[k] + quad.xx
    /\ quad.limits[k].u_min <= quad.ww[quad.nx]

\* the limits of the pair (last grid point, last grid point) were computed
\* and the sum w + x, beyond the grid, was cut down to w_max
C25_Witness ==
  /\ Len(quad.limits) = quad.nx
  /\ quad.xx = quad.ww[quad.nx]
  /\ quad.limits[quad.nx].u_max = quad.ww[quad.nx - 1]
  /\ quad.ww[quad.nx] + quad.xx > quad.ww[quad.nx]

\* C26: for every pair of grid points the lower limit of the middle integral
\* is at least the first grid point and at most the upper limit.
C26_IntervalInsideTable ==
  \A k \in 1..Len(quad.limits) :
    /\ quad.ww[1] <= quad.limits[k].u_min
    /\ quad.limits[k].u_min <= quad.limits[k].u_max

\* C21: in the parallel regions of the real and of the imaginary part the
\* writes of the threads are index-disjoint: every write goes to row ii of
\* psi_re_new, psi_im or psi_re_fixed with ii a row of the writing thread,
\* no cell is written by two threads, and psi_re is not written.
C21_WritesIndexDisjoint ==
  /\ \A w \in omp.wrote :
       /\ w.arr \in {"psi_re_new", "psi_im", "psi_re_fixed"}
       /\ omp.owner[w.row] = w.t
  /\ \A w1, w2 \in omp.wrote :
       (w1.arr = w2.arr /\ w1.row = w2.row) => w1.t = w2.t

\* two threads have each written their own row of the same array and the
\* region has ended
C21_Witness ==
  /\ omp.phase = "joined"
  /\ \E w1, w2 \in omp.wrote : w1.arr = w2.arr /\ w1.t # w2.t /\ w1.row # w2.row
  /\ \E w \in omp.wrote : w.arr = "psi_re_fixed"

\* C22: after the first call of the real part has ended every kernel slot
\* is populated, and no call reads a slot that nobody has written.
C22_KernelSlotsPopulated ==
  /\ (omp.region = "re" /\ omp.phase = "joined") => omp.written = 1..omp.nx
  /\ \A ii \in omp.unwritten_reads : ii \in omp.written

C24_BracketFromInput ==
  mu.at \in {"iterate", "count", "free", "returned"} =>
    mu.bracket = <<mu.in.mu_lo, mu.in.mu_hi>>

\* C29: solve_stls writes the restart file exactly when no phi_file was
\* given: a run that has ended without phi_file has written it, a run with
\* phi_file never changes it, and the only step that changes it is the one
\* that ends the run; the text results are written in both cases, and they
\* are written only by the step that leaves the iteration loop.
C29_RestartFileIffFreshRun ==
  /\ [](pc = "done" => /\ text_out = write_text(SS, GG)
                       /\ (in.phi_file = NO_FILE <=> init_flag)
                       /\ (in.phi_file = NO_FILE => disk.exists /\ disk # NoDisk))
  /\ [](pc # "done" => text_out = NoText)
  /\ [][/\ in.phi_file # NO_FILE => disk' = disk
        /\ disk' # disk => (pc = "loop" /\ pc' = "done")
        /\ text_out' # text_out => (pc = "loop" /\ pc' = "done")]_vars

\* a run that loaded phi and SSHF from a restart file has ended: the text
\* results are written and the restart file is there as it was found
C29_Witness ==
  /\ pc = "done"
  /\ ~init_flag
  /\ in.phi_file # NO_FILE
  /\ text_out.written
  /\ Intact(disk)

\* C30: on a restart the input of the caller gets Theta, dx, xmax, nx and nl
\* of the record in the file and the mu computed from that record, and keeps
\* its rs, nIter, err_min_iter, a_mix and phi_file.
C30_RestartReplacesSixFields ==
  [][(pc = "start" /\ pc' = "guess" /\ in.phi_file # NO_FILE) =>
       /\ disk.nrec >= 1
       /\ in'.Theta = disk.rec.Theta
       /\ in'.dx = disk.rec.dx
       /\ in'.xmax = disk.rec.xmax
       /\ in'.nx = disk.rec.nx
       /\ in'.nl = disk.rec.nl
       /\ in'.mu = compute_mu(disk.rec)
       /\ in'.mu = compute_mu(in')
       /\ in'.rs = in.rs
       /\ in'.nIter = in.nIter
       /\ in'.err_min_iter = in.err_min_iter
       /\ in'.a_mix = in.a_mix
       /\ in'.phi_file = in.phi_file]_vars

====
